---- MODULE Spec2Model ----
(***************************************************************************)
(* Model of the PLONK circuit composer (src/src/lib.rs): the witness       *)
(* table, the constraint list, the sparse public-input register and the    *)
(* permutation builder, with one action per composer operation.            *)
(*                                                                         *)
(* The scalar field is scaled down from the BLS12-381 scalar field to the  *)
(* prime field of order Modulus; the raw representation keeps its width of *)
(* FieldBits = 256 bits.  As in the original, Modulus < 2^(FieldBits-1),   *)
(* so the top bit of every canonical representation is zero, and the       *)
(* bitwise xor of two canonical values may exceed Modulus.                 *)
(*                                                                         *)
(* Each operation is a function on the composer value (the record Cs), so  *)
(* that an operation calling another is the composition of the two; an     *)
(* action applies one operation to the variables and records the call, its *)
(* arguments and its result in `call`.                                     *)
(*                                                                         *)
(* Specifications:                                                         *)
(*   Spec      any sequence of at most MaxOps operations on issued wires   *)
(*   SpecGate  two allocations of any field values, then one of            *)
(*             append_public, append_evaluated_output, gate_add, gate_mul  *)
(*   SpecRange one allocation of any field value, then component_range or *)
(*             component_decomposition                                     *)
(*   SpecSelect three allocations of any field values, then                *)
(*             component_select or component_select_point                  *)
(*   SpecMul   one allocation of any field value, component_mul_generator *)
(*             by it, a constant assertion on the product                  *)
(*   SpecLogic the circuit of tests/logic.rs: operands of any field       *)
(*             values, a candidate result, the logic gadget, assert_equal  *)
(*   SpecPoint one allocation of any field value and up to two points of   *)
(*             the curve, then a point gadget on them                      *)
(*   SpecSatisfy two allocations of any field values, one gate-emitting   *)
(*             operation on them, then one more                            *)
(*   SpecVerify one run of VerificationKey::seed_transcript and            *)
(*             Proof::verify (src/src/proof_system), statement by          *)
(*             statement, on sample keys, proofs and public inputs; every  *)
(*             challenge is any value of its sample                        *)
(***************************************************************************)
EXTENDS Integers, Sequences, FiniteSets, TLC

VARIABLES witness, constraints, instance, perm, issued, call, step,
          input, transcript, local, pc

vars == <<witness, constraints, instance, perm, issued, call, step,
          input, transcript, local, pc>>

-----------------------------------------------------------------------------
(* Bounds of the model *)

\* most composer operations in one run of Spec
MaxOps == 2

-----------------------------------------------------------------------------
(* The field C::Range (BlsScalar), scaled down *)

Modulus == 7

\* width of the raw bit representation (to_raw_bytes is 32 bytes)
FieldBits == 256

F == 0 .. (Modulus - 1)

FromInt(n) == n % Modulus

Add(x, y) == (x + y) % Modulus

Mul(x, y) == (x * y) % Modulus

Neg(x) == (Modulus - x) % Modulus

Sub(x, y) == Add(x, Neg(y))

\* Option<T>: None is the empty sequence, Some(v) the one-element sequence
None == << >>

Some(v) == << v >>

\* Fr::invert: None for zero, otherwise the multiplicative inverse
Invert(y) == IF y = 0 THEN None ELSE Some(CHOOSE z \in F : Mul(y, z) = 1)

RECURSIVE ShiftRight(_, _)

\* v >> k on the canonical integer representation
ShiftRight(v, k) == IF k = 0 \/ v = 0 THEN v ELSE ShiftRight(v \div 2, k - 1)

\* BitIterator8 over the raw bytes: the FieldBits bits, most significant first
BitIterator8(v) == [i \in 1 .. FieldBits |-> ShiftRight(v, FieldBits - i) % 2]

\* mutant: the bit count is not clamped but replaced by the width
Min_Second(x, y) == y

Min(x, y) == IF x <= y THEN x ELSE y

\* `let x = v; Body(x)`: a statement's value is computed before the statements
\* after it are. A loop is unrolled by halves: the iterations up to the middle,
\* then, from the state they leave, the iterations after it.
Bind(v, Body(_)) == CHOOSE r \in {Body(x) : x \in {v}} : TRUE

-----------------------------------------------------------------------------
(* Constraint: one width-4 gate record *)

ZERO == 0

ONE == 1

ConstraintDefault ==
    [w_a |-> ZERO, w_b |-> ZERO, w_o |-> ZERO, w_d |-> ZERO,
     q_m |-> 0, q_l |-> 0, q_r |-> 0, q_o |-> 0, q_d |-> 0, q_c |-> 0,
     q_arith |-> 0, q_range |-> 0, q_logic |-> 0,
     q_fixed_group_add |-> 0, q_variable_group_add |-> 0,
     public_input |-> None]

ConstraintArithmetic(c) == [c EXCEPT !.q_arith = 1]

ConstraintLogic(c) == [c EXCEPT !.q_logic = Neg(1)]

ConstraintLogicXor(c) == [c EXCEPT !.q_logic = 1]

ConstraintRange(c) == [c EXCEPT !.q_range = 1]

-----------------------------------------------------------------------------
(* Permutation builder: for each wire, its (gate, column) placements *)

PermutationNew == << >>

new_witness(p) == Append(p, << >>)

add_witness_to_map(p, w, gate, col) ==
    [p EXCEPT ![w + 1] = Append(@, << gate, col >>)]

add_witnesses_to_map(p, a, b, o, d, gate) ==
    add_witness_to_map(
        add_witness_to_map(
            add_witness_to_map(
                add_witness_to_map(p, a, gate, "a"), b, gate, "b"),
            o, gate, "o"),
        d, gate, "d")

-----------------------------------------------------------------------------
(* The composer as a value; the operations are functions on it *)

EmptyMap == [g \in {} |-> 0]

MapInsert(m, k, v) == [g \in (DOMAIN m) \cup {k} |-> IF g = k THEN v ELSE m[g]]

new ==
    [witness |-> << >>, constraints |-> << >>, instance |-> EmptyMap,
     perm |-> PermutationNew]

\* the index the next allocated witness gets
NextWire(cs) == Len(cs.witness)

\* impl Index<PrivateWire>: the value of a wire
Value(cs, w) == cs.witness[w + 1]

\* mutant: the new witness is put in front of the others
append_witness_internal_Front(cs, v) ==
    [cs EXCEPT !.perm = new_witness(@), !.witness = << v >> \o @]

append_witness_internal(cs, v) ==
    [cs EXCEPT !.perm = new_witness(@), !.witness = Append(@, v)]

append_witness(cs, v) == append_witness_internal(cs, v)

\* mutant: the public input is recorded at the index after the push
append_custom_gate_internal_PiAfterPush(cs, c) ==
    LET n == Len(cs.constraints)
    IN  [cs EXCEPT
            !.constraints = Append(@, c),
            !.instance = IF c.public_input # None
                            THEN MapInsert(@, n + 1, c.public_input[1])
                            ELSE @,
            !.perm = add_witnesses_to_map(@, c.w_a, c.w_b, c.w_o, c.w_d, n)]

\* mutant: the placements are recorded at the index after the push
append_custom_gate_internal_PermAfterPush(cs, c) ==
    LET n == Len(cs.constraints)
    IN  [cs EXCEPT
            !.constraints = Append(@, c),
            !.instance = IF c.public_input # None
                            THEN MapInsert(@, n, c.public_input[1])
                            ELSE @,
            !.perm = add_witnesses_to_map(@, c.w_a, c.w_b, c.w_o, c.w_d, n + 1)]

append_custom_gate_internal(cs, c) ==
    LET n == Len(cs.constraints)
    IN  [cs EXCEPT
            !.constraints = Append(@, c),
            !.instance = IF c.public_input # None
                            THEN MapInsert(@, n, c.public_input[1])
                            ELSE @,
            !.perm = add_witnesses_to_map(@, c.w_a, c.w_b, c.w_o, c.w_d, n)]

append_custom_gate(cs, c) == append_custom_gate_internal(cs, c)

append_gate(cs, c) == append_custom_gate(cs, ConstraintArithmetic(c))

\* mutant: the constant is stored without negating it
AssertEqualConstantGate_NoNeg(a, constant, public) ==
    LET c == [ConstraintDefault EXCEPT !.q_l = 1, !.q_c = constant, !.w_a = a]
    IN  IF public # None THEN [c EXCEPT !.public_input = public] ELSE c

AssertEqualConstantGate(a, constant, public) ==
    LET c == [ConstraintDefault EXCEPT !.q_l = 1, !.q_c = Neg(constant), !.w_a = a]
    IN  IF public # None THEN [c EXCEPT !.public_input = public] ELSE c

assert_equal_constant(cs, a, constant, public) ==
    append_gate(cs, AssertEqualConstantGate(a, constant, public))

AssertEqualGate(a, b) ==
    [ConstraintDefault EXCEPT !.q_l = 1, !.q_r = Neg(1), !.w_a = a, !.w_b = b]

assert_equal(cs, a, b) == append_gate(cs, AssertEqualGate(a, b))

DummyGate1(six, one, seven, min_twenty) ==
    [ConstraintDefault EXCEPT
        !.q_m = FromInt(1), !.q_l = FromInt(2), !.q_r = FromInt(3),
        !.q_d = FromInt(1), !.q_c = FromInt(4), !.q_o = FromInt(4),
        !.w_a = six, !.w_b = seven, !.w_d = one, !.w_o = min_twenty]

DummyGate2(six, seven, min_twenty) ==
    [ConstraintDefault EXCEPT
        !.q_m = FromInt(1), !.q_l = FromInt(1), !.q_r = FromInt(1),
        !.q_c = FromInt(127), !.q_o = FromInt(1),
        !.w_a = min_twenty, !.w_b = six, !.w_o = seven]

append_dummy_gates(cs) ==
    LET six == NextWire(cs)
        one == six + 1
        seven == six + 2
        min_twenty == six + 3
        s1 == append_witness(cs, FromInt(6))
        s2 == append_witness(s1, FromInt(1))
        s3 == append_witness(s2, FromInt(7))
        s4 == append_witness(s3, Neg(FromInt(20)))
        s5 == append_gate(s4, DummyGate1(six, one, seven, min_twenty))
    IN  append_gate(s5, DummyGate2(six, seven, min_twenty))

\* mutant: the dummy gates are appended once
initialize_OneDummy ==
    LET s1 == append_witness(new, 0)
        s2 == append_witness(s1, 1)
        s3 == assert_equal_constant(s2, 0, 0, None)
        s4 == assert_equal_constant(s3, 1, 1, None)
    IN  append_dummy_gates(s4)

initialize ==
    LET s1 == append_witness(new, 0)
        s2 == append_witness(s1, 1)
        s3 == assert_equal_constant(s2, 0, 0, None)
        s4 == assert_equal_constant(s3, 1, 1, None)
        s5 == append_dummy_gates(s4)
    IN  append_dummy_gates(s5)

append_constant(cs, constant) ==
    LET witness_ == NextWire(cs)
        s1 == append_witness(cs, constant)
    IN  [cs |-> assert_equal_constant(s1, witness_, constant, None),
         ret |-> witness_]

\* mutant: the public input is the value itself, not its negation
append_public_PositivePi(cs, public) ==
    LET witness_ == NextWire(cs)
        s1 == append_witness(cs, public)
    IN  [cs |-> assert_equal_constant(s1, witness_, 0, Some(public)),
         ret |-> witness_]

append_public(cs, public) ==
    LET witness_ == NextWire(cs)
        s1 == append_witness(cs, public)
    IN  [cs |-> assert_equal_constant(s1, witness_, 0, Some(Neg(public))),
         ret |-> witness_]

ComponentBooleanGate(a) ==
    [ConstraintDefault EXCEPT
        !.q_m = 1, !.q_o = Neg(1), !.w_a = a, !.w_b = a, !.w_o = a, !.w_d = ZERO]

component_boolean(cs, a) == append_gate(cs, ComponentBooleanGate(a))

\* mutant: the term of the fourth wire is left out
EvaluatedInput_NoFourth(cs, s) ==
    LET a == Value(cs, s.w_a)
        b == Value(cs, s.w_b)
        d == Value(cs, s.w_d)
        pi == IF s.public_input # None THEN s.public_input[1] ELSE 0
    IN  Add(Add(Add(Add(Add(Mul(Mul(s.q_m, a), b), Mul(s.q_l, a)),
                        Mul(s.q_r, b)), 0), s.q_c), pi)

\* x of append_evaluated_output: the gate polynomial without the output term
EvaluatedInput(cs, s) ==
    LET a == Value(cs, s.w_a)
        b == Value(cs, s.w_b)
        d == Value(cs, s.w_d)
        pi == IF s.public_input # None THEN s.public_input[1] ELSE 0
    IN  Add(Add(Add(Add(Add(Mul(Mul(s.q_m, a), b), Mul(s.q_l, a)),
                        Mul(s.q_r, b)), Mul(s.q_d, d)), s.q_c), pi)

\* mutant: the general branch multiplies by the inverse without negating it
EvaluatedOutput_NoNegInverse(x, y) ==
    IF y = 1 THEN Some(Neg(x))
    ELSE IF y = Neg(1) THEN Some(x)
    ELSE IF Invert(y) # None THEN Some(Mul(x, Invert(y)[1]))
    ELSE None

\* o of append_evaluated_output: the output value solving the gate for q_o = y
EvaluatedOutput(x, y) ==
    IF y = 1 THEN Some(Neg(x))
    ELSE IF y = Neg(1) THEN Some(x)
    ELSE IF Invert(y) # None THEN Some(Mul(x, Neg(Invert(y)[1])))
    ELSE None

append_evaluated_output(cs, s) ==
    LET o == EvaluatedOutput(EvaluatedInput(cs, s), s.q_o)
    IN  IF o # None
           THEN [cs |-> append_witness(cs, o[1]), ret |-> Some(NextWire(cs))]
           ELSE [cs |-> cs, ret |-> None]

\* WitnessPoint::new
WitnessPoint(x, y) == [x |-> x, y |-> y]

GateAddSelectors(s) == [ConstraintArithmetic(s) EXCEPT !.q_o = Neg(1)]

\* mutant: the output is allocated but its gate is not appended
gate_add_NoGate(cs, s) ==
    LET s1 == GateAddSelectors(s)
        r == append_evaluated_output(cs, s1)
    IN  [cs |-> r.cs, ret |-> r.ret[1]]

gate_add(cs, s) ==
    LET s1 == GateAddSelectors(s)
        r == append_evaluated_output(cs, s1)
        o == r.ret[1]
    IN  [cs |-> append_gate(r.cs, [s1 EXCEPT !.w_o = o]), ret |-> o]

GateMulSelectors(s) == [ConstraintArithmetic(s) EXCEPT !.q_o = Neg(1)]

gate_mul(cs, s) ==
    LET s1 == GateMulSelectors(s)
        r == append_evaluated_output(cs, s1)
        o == r.ret[1]
    IN  [cs |-> append_gate(r.cs, [s1 EXCEPT !.w_o = o]), ret |-> o]

-----------------------------------------------------------------------------
(* Logic gadget *)

\* u8 bitwise operators on two-bit quads
QuadAnd(l, r) == 2 * ((l \div 2) * (r \div 2)) + ((l % 2) * (r % 2))

QuadXor(l, r) == 2 * (((l \div 2) + (r \div 2)) % 2) + (((l % 2) + (r % 2)) % 2)

\* the bits left after skipping those outside num_bits
LogicBits(v, num_bits) ==
    SubSeq(BitIterator8(v), FieldBits - num_bits + 1, FieldBits)

\* mutant: the two bits of a quad are weighted the wrong way round
LogicQuad_LowFirst(bits, idx) == bits[idx + 1] + 2 * bits[idx + 2]

\* the quad at bit index idx (0-based), high bit first
LogicQuad(bits, idx) == 2 * bits[idx + 1] + bits[idx + 2]

\* mutant: the row of a round already carries the round's output accumulator
LogicRound_OutputGate(st, a_bits, b_bits, is_component_xor) ==
    LET idx == st.i * 2
        left_quad == LogicQuad(a_bits, idx)
        right_quad == LogicQuad(b_bits, idx)
        out_quad == IF is_component_xor
                       THEN QuadXor(left_quad, right_quad)
                       ELSE QuadAnd(left_quad, right_quad)
        prod_quad == FromInt(left_quad * right_quad)
        left_acc == Add(Mul(st.left_acc, FromInt(4)), FromInt(left_quad))
        right_acc == Add(Mul(st.right_acc, FromInt(4)), FromInt(right_quad))
        out_acc == Add(Mul(st.out_acc, FromInt(4)), FromInt(out_quad))
        wit_a == NextWire(st.cs)
        wit_b == wit_a + 1
        wit_c == wit_a + 2
        wit_d == wit_a + 3
        s1 == append_witness(st.cs, left_acc)
        s2 == append_witness(s1, right_acc)
        s3 == append_witness(s2, prod_quad)
        s4 == append_witness(s3, out_acc)
        c1 == [st.constraint EXCEPT !.w_o = wit_c]
    IN  [cs |-> append_custom_gate(s4, [c1 EXCEPT !.w_d = wit_d]), i |-> st.i + 1,
         left_acc |-> left_acc, right_acc |-> right_acc, out_acc |-> out_acc,
         constraint |-> [c1 EXCEPT !.w_a = wit_a, !.w_b = wit_b, !.w_d = wit_d]]

\* one iteration of the loop of append_logic_component
LogicRound(st, a_bits, b_bits, is_component_xor) ==
    LET idx == st.i * 2
        left_quad == LogicQuad(a_bits, idx)
        right_quad == LogicQuad(b_bits, idx)
        out_quad == IF is_component_xor
                       THEN QuadXor(left_quad, right_quad)
                       ELSE QuadAnd(left_quad, right_quad)
        prod_quad == FromInt(left_quad * right_quad)
        left_acc == Add(Mul(st.left_acc, FromInt(4)), FromInt(left_quad))
        right_acc == Add(Mul(st.right_acc, FromInt(4)), FromInt(right_quad))
        out_acc == Add(Mul(st.out_acc, FromInt(4)), FromInt(out_quad))
        wit_a == NextWire(st.cs)
        wit_b == wit_a + 1
        wit_c == wit_a + 2
        wit_d == wit_a + 3
        s1 == append_witness(st.cs, left_acc)
        s2 == append_witness(s1, right_acc)
        s3 == append_witness(s2, prod_quad)
        s4 == append_witness(s3, out_acc)
        c1 == [st.constraint EXCEPT !.w_o = wit_c]
    IN  [cs |-> append_custom_gate(s4, c1), i |-> st.i + 1,
         left_acc |-> left_acc, right_acc |-> right_acc, out_acc |-> out_acc,
         constraint |-> [c1 EXCEPT !.w_a = wit_a, !.w_b = wit_b, !.w_d = wit_d]]

RECURSIVE LogicRoundsTo(_, _, _, _, _)

\* the iterations of the loop up to index `to`
LogicRoundsTo(st, to, a_bits, b_bits, is_component_xor) ==
    IF st.i >= to
       THEN st
       ELSE IF st.i + 1 = to
               THEN LogicRound(st, a_bits, b_bits, is_component_xor)
               ELSE Bind(LogicRoundsTo(st, (st.i + to) \div 2, a_bits, b_bits, is_component_xor),
                         LAMBDA mid : LogicRoundsTo(mid, to, a_bits, b_bits, is_component_xor))

\* the loop `for i in 0..num_quads`, from the loop state st
LogicRounds(st, num_quads, a_bits, b_bits, is_component_xor) ==
    LogicRoundsTo(st, num_quads, a_bits, b_bits, is_component_xor)

\* the padding row closing the gadget
\* mutant: the padding row takes its d wire from the o column
LogicPadGate_WrongColumn(constraint) ==
    [ConstraintDefault EXCEPT
        !.w_a = constraint.w_a, !.w_b = constraint.w_b,
        !.w_d = constraint.w_o + 2]

LogicPadGate(constraint) ==
    [ConstraintDefault EXCEPT
        !.w_a = constraint.w_a, !.w_b = constraint.w_b, !.w_d = constraint.w_d]

\* mutant: the padding row is not appended
append_logic_component_NoPad(cs, a, b, num_bits_arg, is_component_xor) ==
    LET num_bits == Min(num_bits_arg, FieldBits)
        num_quads == num_bits \div 2
        a_bits == LogicBits(Value(cs, a), num_bits)
        b_bits == LogicBits(Value(cs, b), num_bits)
        constraint == IF is_component_xor
                         THEN ConstraintLogicXor(ConstraintDefault)
                         ELSE ConstraintLogic(ConstraintDefault)
        st == LogicRounds([cs |-> cs, i |-> 0, left_acc |-> 0, right_acc |-> 0,
                           out_acc |-> 0, constraint |-> constraint],
                          num_quads, a_bits, b_bits, is_component_xor)
    IN  [cs |-> st.cs, ret |-> st.constraint.w_d]

append_logic_component(cs, a, b, num_bits_arg, is_component_xor) ==
    LET num_bits == Min(num_bits_arg, FieldBits)
        num_quads == num_bits \div 2
        a_bits == LogicBits(Value(cs, a), num_bits)
        b_bits == LogicBits(Value(cs, b), num_bits)
        constraint == IF is_component_xor
                         THEN ConstraintLogicXor(ConstraintDefault)
                         ELSE ConstraintLogic(ConstraintDefault)
        st == LogicRounds([cs |-> cs, i |-> 0, left_acc |-> 0, right_acc |-> 0,
                           out_acc |-> 0, constraint |-> constraint],
                          num_quads, a_bits, b_bits, is_component_xor)
    IN  [cs |-> append_custom_gate(st.cs, LogicPadGate(st.constraint)),
         ret |-> st.constraint.w_d]

append_logic_and(cs, a, b, num_bits) ==
    append_logic_component(cs, a, b, num_bits, FALSE)

append_logic_xor(cs, a, b, num_bits) ==
    append_logic_component(cs, a, b, num_bits, TRUE)

-----------------------------------------------------------------------------
(* Range gadget *)

\* mutant: the two bits of a quad are weighted the wrong way round
RangeRound_HighFirst(st, num_quads, bits) ==
    LET i == st.i
        bit_index == (num_quads - i) * 2
        q_0 == bits[bit_index + 1]
        q_1 == bits[bit_index + 2]
        quad == (2 * q_0) + q_1
        accumulator == Add(Mul(FromInt(4), st.accumulator), FromInt(quad))
        accumulator_var == NextWire(st.cs)
        idx == (i \div 4) + 1
        col == i % 4
    IN  [cs |-> append_witness(st.cs, accumulator), i |-> i + 1,
         accumulator |-> accumulator,
         accumulators |-> Append(st.accumulators, accumulator_var),
         constraints |->
            [st.constraints EXCEPT ![idx] =
                IF col = 0 THEN [@ EXCEPT !.w_d = accumulator_var]
                ELSE IF col = 1 THEN [@ EXCEPT !.w_o = accumulator_var]
                ELSE IF col = 2 THEN [@ EXCEPT !.w_b = accumulator_var]
                ELSE [@ EXCEPT !.w_a = accumulator_var]]]

\* one iteration of the loop of component_range
RangeRound(st, num_quads, bits) ==
    LET i == st.i
        bit_index == (num_quads - i) * 2
        q_0 == bits[bit_index + 1]
        q_1 == bits[bit_index + 2]
        quad == q_0 + (2 * q_1)
        accumulator == Add(Mul(FromInt(4), st.accumulator), FromInt(quad))
        accumulator_var == NextWire(st.cs)
        idx == (i \div 4) + 1
        col == i % 4
    IN  [cs |-> append_witness(st.cs, accumulator), i |-> i + 1,
         accumulator |-> accumulator,
         accumulators |-> Append(st.accumulators, accumulator_var),
         constraints |->
            [st.constraints EXCEPT ![idx] =
                IF col = 0 THEN [@ EXCEPT !.w_d = accumulator_var]
                ELSE IF col = 1 THEN [@ EXCEPT !.w_o = accumulator_var]
                ELSE IF col = 2 THEN [@ EXCEPT !.w_b = accumulator_var]
                ELSE [@ EXCEPT !.w_a = accumulator_var]]]

RECURSIVE RangeRoundsTo_LeadingZeros(_, _, _, _)

\* mutant: no accumulator is allocated while the accumulated value is zero
RangeRoundsTo_LeadingZeros(st, to, num_quads, bits) ==
    IF st.i >= to
       THEN st
       ELSE IF st.i + 1 = to
               THEN LET r == RangeRound(st, num_quads, bits)
                    IN  IF r.accumulator = 0 THEN [st EXCEPT !.i = @ + 1] ELSE r
               ELSE Bind(RangeRoundsTo_LeadingZeros(st, (st.i + to) \div 2,
                                                    num_quads, bits),
                         LAMBDA mid : RangeRoundsTo_LeadingZeros(mid, to,
                                                                 num_quads, bits))

RECURSIVE RangeRoundsTo(_, _, _, _)

\* the iterations of the loop up to index `to`
RangeRoundsTo(st, to, num_quads, bits) ==
    IF st.i >= to
       THEN st
       ELSE IF st.i + 1 = to
               THEN RangeRound(st, num_quads, bits)
               ELSE Bind(RangeRoundsTo(st, (st.i + to) \div 2, num_quads, bits),
                         LAMBDA mid : RangeRoundsTo(mid, to, num_quads, bits))

\* the loop `for i in pad..=num_quads`, from the loop state st
RangeRounds(st, num_quads, bits) ==
    RangeRoundsTo(st, num_quads + 1, num_quads, bits)

RECURSIVE AppendCustomGates(_, _)

\* `for c in constraints { append_custom_gate(c) }`
AppendCustomGates(cs, gates) ==
    IF gates = << >>
       THEN cs
       ELSE IF Len(gates) = 1
               THEN append_custom_gate(cs, gates[1])
               ELSE Bind(AppendCustomGates(cs, SubSeq(gates, 1, Len(gates) \div 2)),
                         LAMBDA mid : AppendCustomGates(
                             mid, SubSeq(gates, (Len(gates) \div 2) + 1, Len(gates))))

RangeNumGates(num_bits) == (num_bits \div 8) + (IF num_bits % 8 # 0 THEN 1 ELSE 0)

RangePad(num_quads, num_bits) == 1 + (((num_quads * 2) - num_bits) \div 2)

\* the loop reads bits[bit_index + 1] for bit_index up to 2 * (num_quads - pad);
\* an index beyond the representation panics
RangeInBounds(num_bits) ==
    LET num_quads == RangeNumGates(num_bits) * 4
        pad == RangePad(num_quads, num_bits)
    IN  pad > num_quads \/ ((num_quads - pad) * 2) + 1 < FieldBits

component_range(cs, witness_, num_bits) ==
    LET value == Value(cs, witness_)
        bit_iter == BitIterator8(value)
        bits == [k \in 1 .. FieldBits |-> bit_iter[FieldBits + 1 - k]]
        num_gates == RangeNumGates(num_bits)
        num_quads == num_gates * 4
        pad == RangePad(num_quads, num_bits)
        used_gates == num_gates + 1
        base == ConstraintRange(ConstraintDefault)
    IN  Bind(RangeRounds([cs |-> cs, i |-> pad, accumulator |-> 0,
                          accumulators |-> << >>,
                          constraints |-> [k \in 1 .. used_gates |-> base]],
                         num_quads, bits), LAMBDA st :
        LET last == IF st.accumulators # << >>
                       THEN [ConstraintDefault EXCEPT
                                !.w_d = st.accumulators[Len(st.accumulators)]]
                       ELSE ConstraintDefault
        IN  Bind(AppendCustomGates(st.cs,
                                   [st.constraints EXCEPT ![used_gates] = last]),
                 LAMBDA s1 :
            IF st.accumulators # << >>
               THEN assert_equal(s1, st.accumulators[Len(st.accumulators)], witness_)
               ELSE s1))

-----------------------------------------------------------------------------
(* The curve C over the field, scaled down with it: the twisted Edwards     *)
(* curve EdwardsA x^2 + y^2 = 1 + EdwardsD x^2 y^2 (twelve points, cyclic,  *)
(* complete addition law); a point is its affine pair << x, y >>            *)

EdwardsA == 1

EdwardsD == 5

ADDITIVE_IDENTITY == << 0, 1 >>

get_x(P) == P[1]

get_y(P) == P[2]

IsOnCurve(P) ==
    Add(Mul(EdwardsA, Mul(P[1], P[1])), Mul(P[2], P[2]))
        = Add(1, Mul(EdwardsD, Mul(Mul(P[1], P[1]), Mul(P[2], P[2]))))

CurvePoints == {P \in F \X F : IsOnCurve(P)}

\* x / y for y # 0
Div(x, y) == Mul(x, Invert(y)[1])

\* the group law, as the affine point the sum converts to
PointAdd(P, Q) ==
    LET x1 == P[1]
        y1 == P[2]
        x2 == Q[1]
        y2 == Q[2]
        t == Mul(EdwardsD, Mul(Mul(x1, x2), Mul(y1, y2)))
    IN  << Div(Add(Mul(x1, y2), Mul(y1, x2)), Add(1, t)),
           Div(Sub(Mul(y1, y2), Mul(EdwardsA, Mul(x1, x2))), Sub(1, t)) >>

PointDouble(P) == PointAdd(P, P)

\* mutant: the point is handed back as it is
PointNeg_Same(P) == P

PointNeg(P) == << Neg(P[1]), P[2] >>

\* Result<T, Error>
Ok(v) == << "Ok", v >>

Err(e) == << "Err", e >>

-----------------------------------------------------------------------------
(* Fixed-base scalar multiplication *)

\* the number of wnaf entries and of rounds
WnafBits == 256

RECURSIVE Pow2(_)

Pow2(k) == IF k = 0 THEN 1 ELSE 2 * Pow2(k - 1)

\* k mod 2^w as a signed digit of [-2^(w-1), 2^(w-1))
mods_2_pow_k(k, w) ==
    LET m == k % Pow2(w)
    IN  IF m >= Pow2(w - 1) THEN m - Pow2(w) ELSE m

RECURSIVE WnafDigits(_, _)

\* the digits of k from the least significant on, until k is used up
WnafDigits(k, width) ==
    IF k < 1
       THEN << >>
       ELSE IF k % 2 = 1
               THEN LET ki == mods_2_pow_k(k, width)
                    IN  << ki >> \o WnafDigits((k - ki) \div 2, width)
               ELSE << 0 >> \o WnafDigits(k \div 2, width)

\* the windowed non-adjacent form of the scalar: WnafBits signed digits
compute_windowed_naf(scalar, width) ==
    LET digits == WnafDigits(scalar, width)
    IN  [i \in 1 .. WnafBits |-> IF i <= Len(digits) THEN digits[i] ELSE 0]

RECURSIVE MultiplesTo(_, _)

\* generator, 2 generator, 4 generator, ...: the first `to` points
MultiplesTo(multiples, to) ==
    IF Len(multiples) >= to
       THEN multiples
       ELSE IF Len(multiples) + 1 = to
               THEN Append(multiples, PointDouble(multiples[Len(multiples)]))
               ELSE Bind(MultiplesTo(multiples, (Len(multiples) + to) \div 2),
                         LAMBDA mid : MultiplesTo(mid, to))

\* the loop `for i in 1..bits`
Multiples(multiples, bits) ==
    MultiplesTo(multiples, bits)

\* 2^i generator, reversed: the multiple of the most significant digit first
wnaf_point_multiples(generator) ==
    Bind(Multiples(<< generator >>, WnafBits), LAMBDA multiples :
    [i \in 1 .. WnafBits |-> multiples[WnafBits + 1 - i]])

\* one step of the map over the entries, most significant first: the next
\* scalar and point accumulators and xy_alpha, or the error
WnafStep(st, wnaf_entries, multiples) ==
    LET i == st.i
        entry == wnaf_entries[WnafBits - i]
        scalar_to_add == IF entry = 0 THEN 0 ELSE IF entry = -1 THEN Neg(1) ELSE 1
        point_to_add == IF entry = 0 THEN ADDITIVE_IDENTITY
                        ELSE IF entry = -1 THEN PointNeg(multiples[i + 1])
                        ELSE multiples[i + 1]
        prev_accumulator == Mul(FromInt(2), st.scalar_acc[i + 1])
        scalar == Add(prev_accumulator, scalar_to_add)
        point == PointAdd(st.point_acc[i + 1], point_to_add)
    IN  IF entry \notin {-1, 0, 1}
           THEN [st EXCEPT !.err = TRUE]
           ELSE [i |-> i + 1, err |-> FALSE,
                 scalar_acc |-> Append(st.scalar_acc, scalar),
                 point_acc |-> Append(st.point_acc, point),
                 xy_alphas |-> Append(st.xy_alphas,
                                      Mul(get_x(point_to_add), get_y(point_to_add)))]

RECURSIVE WnafStepsTo(_, _, _, _)

WnafStepsTo(st, to, wnaf_entries, multiples) ==
    IF st.err \/ st.i >= to
       THEN st
       ELSE IF st.i + 1 = to
               THEN WnafStep(st, wnaf_entries, multiples)
               ELSE Bind(WnafStepsTo(st, (st.i + to) \div 2, wnaf_entries, multiples),
                         LAMBDA mid : WnafStepsTo(mid, to, wnaf_entries, multiples))

\* the map collected into a Result: it stops at the first error
WnafSteps(st, wnaf_entries, multiples) ==
    WnafStepsTo(st, WnafBits, wnaf_entries, multiples)

Constraint_group_add_curve_scalar(c) == [c EXCEPT !.q_fixed_group_add = 1]

\* mutant: the product of the coordinates of the multiple is left out
WnafRoundGate_NoConstant(acc_x, acc_y, accumulated_bit, xy_alpha, x_beta, y_beta, xy_beta) ==
    [Constraint_group_add_curve_scalar(ConstraintDefault) EXCEPT
        !.q_l = x_beta, !.q_r = y_beta,
        !.w_a = acc_x, !.w_b = acc_y, !.w_o = xy_alpha, !.w_d = accumulated_bit]

\* the gate of one round
WnafRoundGate(acc_x, acc_y, accumulated_bit, xy_alpha, x_beta, y_beta, xy_beta) ==
    [Constraint_group_add_curve_scalar(ConstraintDefault) EXCEPT
        !.q_l = x_beta, !.q_r = y_beta, !.q_c = xy_beta,
        !.w_a = acc_x, !.w_b = acc_y, !.w_o = xy_alpha, !.w_d = accumulated_bit]

\* one iteration of the loop `for i in 0..bits` of component_mul_generator
MulGeneratorRound(st, acc, multiples) ==
    LET i == st.i
        acc_x == NextWire(st.cs)
        acc_y == acc_x + 1
        accumulated_bit == acc_x + 2
        s1 == append_witness(st.cs, get_x(acc.point_acc[i + 1]))
        s2 == append_witness(s1, get_y(acc.point_acc[i + 1]))
        s3 == append_witness(s2, acc.scalar_acc[i + 1])
        s4 == IF i = 0
                 THEN assert_equal_constant(
                          assert_equal_constant(
                              assert_equal_constant(s3, acc_x, 0, None),
                              acc_y, 1, None),
                          accumulated_bit, 0, None)
                 ELSE s3
        x_beta == get_x(multiples[i + 1])
        y_beta == get_y(multiples[i + 1])
        xy_alpha == NextWire(s4)
        s5 == append_witness(s4, acc.xy_alphas[i + 1])
        xy_beta == Mul(x_beta, y_beta)
    IN  [cs |-> append_custom_gate(s5, WnafRoundGate(acc_x, acc_y, accumulated_bit,
                                                     xy_alpha, x_beta, y_beta, xy_beta)),
         i |-> i + 1]

RECURSIVE MulGeneratorRoundsTo(_, _, _, _)

MulGeneratorRoundsTo(st, to, acc, multiples) ==
    IF st.i >= to
       THEN st
       ELSE IF st.i + 1 = to
               THEN MulGeneratorRound(st, acc, multiples)
               ELSE Bind(MulGeneratorRoundsTo(st, (st.i + to) \div 2, acc, multiples),
                         LAMBDA mid : MulGeneratorRoundsTo(mid, to, acc, multiples))

\* the loop `for i in 0..bits`
MulGeneratorRounds(st, acc, multiples) ==
    MulGeneratorRoundsTo(st, WnafBits, acc, multiples)

\* mutant: the error is met with the first accumulators already allocated
component_mul_generator_LateError(cs, jubjub, generator, wnaf_entries) ==
    Bind(wnaf_point_multiples(generator), LAMBDA multiples :
    Bind(WnafSteps([i |-> 0, err |-> FALSE, scalar_acc |-> << 0 >>,
                    point_acc |-> << ADDITIVE_IDENTITY >>, xy_alphas |-> << >>],
                   wnaf_entries, multiples), LAMBDA acc :
    IF acc.err
       THEN [cs |-> append_witness(append_witness(append_witness(cs, 0), 1), 0),
             ret |-> Err("UnsupportedWNAF2k")]
       ELSE
    Bind(MulGeneratorRounds([cs |-> cs, i |-> 0], acc, multiples), LAMBDA st :
    LET acc_x == NextWire(st.cs)
        acc_y == acc_x + 1
        last_accumulated_bit == acc_x + 2
        s1 == append_witness(st.cs, get_x(acc.point_acc[WnafBits + 1]))
        s2 == append_witness(s1, get_y(acc.point_acc[WnafBits + 1]))
        s3 == append_witness(s2, acc.scalar_acc[WnafBits + 1])
        s4 == append_gate(s3, [ConstraintDefault EXCEPT
                                  !.w_a = acc_x, !.w_b = acc_y,
                                  !.w_d = last_accumulated_bit])
    IN  [cs |-> assert_equal(s4, last_accumulated_bit, jubjub),
         ret |-> Ok(WitnessPoint(acc_x, acc_y))])))

\* jubjub * generator; wnaf_entries is what compute_windowed_naf handed back
\* for the value of jubjub
component_mul_generator(cs, jubjub, generator, wnaf_entries) ==
    Bind(wnaf_point_multiples(generator), LAMBDA multiples :
    Bind(WnafSteps([i |-> 0, err |-> FALSE, scalar_acc |-> << 0 >>,
                    point_acc |-> << ADDITIVE_IDENTITY >>, xy_alphas |-> << >>],
                   wnaf_entries, multiples), LAMBDA acc :
    IF acc.err
       THEN [cs |-> cs,
             ret |-> Err("UnsupportedWNAF2k")]
       ELSE
    Bind(MulGeneratorRounds([cs |-> cs, i |-> 0], acc, multiples), LAMBDA st :
    LET acc_x == NextWire(st.cs)
        acc_y == acc_x + 1
        last_accumulated_bit == acc_x + 2
        s1 == append_witness(st.cs, get_x(acc.point_acc[WnafBits + 1]))
        s2 == append_witness(s1, get_y(acc.point_acc[WnafBits + 1]))
        s3 == append_witness(s2, acc.scalar_acc[WnafBits + 1])
        s4 == append_gate(s3, [ConstraintDefault EXCEPT
                                  !.w_a = acc_x, !.w_b = acc_y,
                                  !.w_d = last_accumulated_bit])
    IN  [cs |-> assert_equal(s4, last_accumulated_bit, jubjub),
         ret |-> Ok(WitnessPoint(acc_x, acc_y))])))

-----------------------------------------------------------------------------
(* Decomposition and selection *)

\* mutant: the bits come least significant first
to_bits_LsbFirst(v) == [i \in 1 .. FieldBits |-> ShiftRight(v, i - 1) % 2]

\* the FieldBits bits of the canonical value, most significant first (the order
\* the rev() of component_decomposition and of component_mul_point rely on)
to_bits(v) == [i \in 1 .. FieldBits |-> ShiftRight(v, FieldBits - i) % 2]

RECURSIVE pow_of_2(_)

\* 2^i in the field
pow_of_2(i) ==
    IF i = 0
       THEN 1
       ELSE ((pow_of_2(i \div 2) * pow_of_2(i \div 2)) * (1 + (i % 2))) % Modulus

\* one step of the fold of component_decomposition, on bit i
DecompositionStep(st, bits) ==
    LET i == st.i
        w == bits[i + 1]
        d == NextWire(st.cs)
        constraint == [ConstraintDefault EXCEPT
                          !.q_l = pow_of_2(i), !.q_r = FromInt(1),
                          !.w_a = d, !.w_b = st.acc]
    IN  Bind(append_witness(st.cs, FromInt(w)), LAMBDA s1 :
        Bind(component_boolean(s1, d), LAMBDA s2 :
        Bind(gate_add(s2, constraint), LAMBDA r :
        [cs |-> r.cs, i |-> i + 1, acc |-> r.ret,
         decomposition |-> Append(st.decomposition, d)])))

RECURSIVE DecompositionStepsTo(_, _, _)

DecompositionStepsTo(st, to, bits) ==
    IF st.i >= to
       THEN st
       ELSE IF st.i + 1 = to
               THEN DecompositionStep(st, bits)
               ELSE Bind(DecompositionStepsTo(st, (st.i + to) \div 2, bits),
                         LAMBDA mid : DecompositionStepsTo(mid, to, bits))

\* the fold over the first N of the reversed bits
DecompositionSteps(st, N, bits) ==
    DecompositionStepsTo(st, N, bits)

component_decomposition(cs, scalar, N) ==
    LET msb_first == to_bits(Value(cs, scalar))
        bits == [k \in 1 .. FieldBits |-> msb_first[FieldBits + 1 - k]]
    IN  Bind(DecompositionSteps([cs |-> cs, i |-> 0, acc |-> ZERO,
                                 decomposition |-> << >>], N, bits), LAMBDA st :
        [cs |-> assert_equal(st.cs, st.acc, scalar), ret |-> st.decomposition])

\* mutant: a is selected for bit = 0 and b for bit = 1
component_select_Swapped(cs, bit, a, b) ==
    Bind(gate_mul(cs, [ConstraintDefault EXCEPT
                          !.q_m = FromInt(1), !.w_a = bit, !.w_b = b]),
         LAMBDA r1 :
    Bind(gate_add(r1.cs, [ConstraintDefault EXCEPT
                             !.q_l = Neg(1), !.q_c = FromInt(1), !.w_a = bit]),
         LAMBDA r2 :
    Bind(gate_mul(r2.cs, [ConstraintDefault EXCEPT
                             !.q_m = FromInt(1), !.w_a = r2.ret, !.w_b = a]),
         LAMBDA r3 :
    gate_add(r3.cs, [ConstraintDefault EXCEPT
                        !.q_l = FromInt(1), !.q_r = FromInt(1),
                        !.w_a = r3.ret, !.w_b = r1.ret]))))

\* bit * a, then 1 - bit, then (1 - bit) * b, then their sum
component_select(cs, bit, a, b) ==
    Bind(gate_mul(cs, [ConstraintDefault EXCEPT
                          !.q_m = FromInt(1), !.w_a = bit, !.w_b = a]),
         LAMBDA r1 :
    Bind(gate_add(r1.cs, [ConstraintDefault EXCEPT
                             !.q_l = Neg(1), !.q_c = FromInt(1), !.w_a = bit]),
         LAMBDA r2 :
    Bind(gate_mul(r2.cs, [ConstraintDefault EXCEPT
                             !.q_m = FromInt(1), !.w_a = r2.ret, !.w_b = b]),
         LAMBDA r3 :
    gate_add(r3.cs, [ConstraintDefault EXCEPT
                        !.q_l = FromInt(1), !.q_r = FromInt(1),
                        !.w_a = r3.ret, !.w_b = r1.ret]))))

component_select_point(cs, bit, a, b) ==
    Bind(component_select(cs, bit, a.x, b.x), LAMBDA x :
    Bind(component_select(x.cs, bit, a.y, b.y), LAMBDA y :
    [cs |-> y.cs, ret |-> WitnessPoint(x.ret, y.ret)]))

-----------------------------------------------------------------------------
(* Point gadgets *)

\* Plonk::IDENTITY
IDENTITY == WitnessPoint(ZERO, ONE)

append_point(cs, affine) ==
    LET x == NextWire(cs)
        y == x + 1
    IN  [cs |-> append_witness(append_witness(cs, get_x(affine)), get_y(affine)),
         ret |-> WitnessPoint(x, y)]

Constraint_group_add_curve_addtion(c) == [c EXCEPT !.q_variable_group_add = 1]

\* mutant: the product kept in the second row is y_1 * x_2
component_add_point_WrongProduct(cs, a, b) ==
    LET point == PointAdd(<< Value(cs, a.x), Value(cs, a.y) >>,
                          << Value(cs, b.x), Value(cs, b.y) >>)
        x_1_y_2 == NextWire(cs)
        x_3 == x_1_y_2 + 1
        y_3 == x_1_y_2 + 2
    IN  Bind(append_witness(cs, Mul(Value(cs, a.y), Value(cs, b.x))), LAMBDA s1 :
        Bind(append_witness(s1, get_x(point)), LAMBDA s2 :
        Bind(append_witness(s2, get_y(point)), LAMBDA s3 :
        Bind(append_custom_gate(s3, Constraint_group_add_curve_addtion(
                 [ConstraintDefault EXCEPT
                     !.w_a = a.x, !.w_b = a.y, !.w_o = b.x, !.w_d = b.y])),
             LAMBDA s4 :
        [cs |-> append_custom_gate(s4, [ConstraintDefault EXCEPT
                                           !.w_a = x_3, !.w_b = y_3, !.w_d = x_1_y_2]),
         ret |-> WitnessPoint(x_3, y_3)]))))

component_add_point(cs, a, b) ==
    LET point == PointAdd(<< Value(cs, a.x), Value(cs, a.y) >>,
                          << Value(cs, b.x), Value(cs, b.y) >>)
        x1_y2 == Mul(Value(cs, a.x), Value(cs, b.y))
        x_1_y_2 == NextWire(cs)
        x_3 == x_1_y_2 + 1
        y_3 == x_1_y_2 + 2
    IN  Bind(append_witness(cs, x1_y2), LAMBDA s1 :
        Bind(append_witness(s1, get_x(point)), LAMBDA s2 :
        Bind(append_witness(s2, get_y(point)), LAMBDA s3 :
        Bind(append_custom_gate(s3, Constraint_group_add_curve_addtion(
                 [ConstraintDefault EXCEPT
                     !.w_a = a.x, !.w_b = a.y, !.w_o = b.x, !.w_d = b.y])),
             LAMBDA s4 :
        [cs |-> append_custom_gate(s4, [ConstraintDefault EXCEPT
                                           !.w_a = x_3, !.w_b = y_3, !.w_d = x_1_y_2]),
         ret |-> WitnessPoint(x_3, y_3)]))))

\* bit * value
component_select_zero(cs, bit, value) ==
    gate_mul(cs, [ConstraintDefault EXCEPT
                     !.q_m = FromInt(1), !.w_a = bit, !.w_b = value])

\* mutant: the constant 1 is left out of the value and of the gate
component_select_one_NoOne(cs, bit, value) ==
    LET b == Value(cs, bit)
        v == Value(cs, value)
        f_x == NextWire(cs)
        s1 == append_witness(cs, Mul(b, v))
    IN  [cs |-> append_gate(s1, [ConstraintDefault EXCEPT
                                    !.q_m = FromInt(1), !.q_o = Neg(1),
                                    !.w_a = bit, !.w_b = value, !.w_o = f_x]),
         ret |-> f_x]

\* 1 - bit + bit * value, in one gate
component_select_one(cs, bit, value) ==
    LET b == Value(cs, bit)
        v == Value(cs, value)
        f_x == NextWire(cs)
        s1 == append_witness(cs, Add(Sub(1, b), Mul(b, v)))
    IN  [cs |-> append_gate(s1, [ConstraintDefault EXCEPT
                                    !.q_m = FromInt(1), !.q_l = Neg(1),
                                    !.q_o = Neg(1), !.q_c = FromInt(1),
                                    !.w_a = bit, !.w_b = value, !.w_o = f_x]),
         ret |-> f_x]

component_select_identity(cs, bit, a) ==
    Bind(component_select_zero(cs, bit, a.x), LAMBDA x :
    Bind(component_select_one(x.cs, bit, a.y), LAMBDA y :
    [cs |-> y.cs, ret |-> WitnessPoint(x.ret, y.ret)]))

\* the bits of the scalar that component_mul_point decomposes it to
MulPointBits == 252

\* mutant: the point is added before the result is doubled
MulPointRound_AddFirst(st, scalar_bits, point) ==
    Bind(component_select_identity(st.cs, scalar_bits[MulPointBits - st.i], point),
         LAMBDA point_to_add :
    Bind(component_add_point(point_to_add.cs, st.result, point_to_add.ret),
         LAMBDA sum :
    Bind(component_add_point(sum.cs, sum.ret, sum.ret), LAMBDA doubled :
    [cs |-> doubled.cs, i |-> st.i + 1, result |-> doubled.ret])))

\* one iteration of `for bit in scalar_bits.iter().rev()`
MulPointRound(st, scalar_bits, point) ==
    Bind(component_add_point(st.cs, st.result, st.result), LAMBDA doubled :
    Bind(component_select_identity(doubled.cs, scalar_bits[MulPointBits - st.i],
                                   point), LAMBDA point_to_add :
    Bind(component_add_point(point_to_add.cs, doubled.ret, point_to_add.ret),
         LAMBDA sum :
    [cs |-> sum.cs, i |-> st.i + 1, result |-> sum.ret])))

RECURSIVE MulPointRoundsTo(_, _, _, _)

MulPointRoundsTo(st, to, scalar_bits, point) ==
    IF st.i >= to
       THEN st
       ELSE IF st.i + 1 = to
               THEN MulPointRound(st, scalar_bits, point)
               ELSE Bind(MulPointRoundsTo(st, (st.i + to) \div 2, scalar_bits, point),
                         LAMBDA mid : MulPointRoundsTo(mid, to, scalar_bits, point))

\* jubjub * point by double-and-add, from the most significant bit
component_mul_point(cs, jubjub, point) ==
    Bind(component_decomposition(cs, jubjub, MulPointBits), LAMBDA scalar_bits :
    Bind(MulPointRoundsTo([cs |-> scalar_bits.cs, i |-> 0, result |-> IDENTITY],
                          MulPointBits, scalar_bits.ret, point), LAMBDA st :
    [cs |-> st.cs, ret |-> st.result]))

-----------------------------------------------------------------------------
(* Satisfaction of a gate by the witness values *)

\* the sorted gate indexes carrying a public input
public_input_indexes(cs) == DOMAIN cs.instance

\* the public inputs spread over the gates, zero elsewhere
dense_public_inputs(cs, size) ==
    [g \in 0 .. (size - 1) |->
        IF g \in public_input_indexes(cs) THEN cs.instance[g] ELSE 0]

\* the arithmetic widget at one row
compute_quotient_i(c, a_w_i, b_w_i, c_w_i, d_w_i) ==
    LET a_1 == Mul(Mul(a_w_i, b_w_i), c.q_m)
        a_2 == Mul(a_w_i, c.q_l)
        a_3 == Mul(b_w_i, c.q_r)
        a_4 == Mul(c_w_i, c.q_o)
        a_5 == Mul(d_w_i, c.q_d)
        a_6 == c.q_c
    IN  Mul(Add(Add(Add(Add(Add(a_1, a_2), a_3), a_4), a_5), a_6), c.q_arith)

\* the arithmetic identity of gate g (0-based) holds for the stored witnesses
ArithmeticHolds(cs, g) ==
    LET c == cs.constraints[g + 1]
    IN  Add(compute_quotient_i(c, Value(cs, c.w_a), Value(cs, c.w_b),
                               Value(cs, c.w_o), Value(cs, c.w_d)),
            dense_public_inputs(cs, Len(cs.constraints))[g]) = 0

-----------------------------------------------------------------------------
(* State machine *)

\* the composer the variables hold
Cs ==
    [witness |-> witness, constraints |-> constraints, instance |-> instance,
     perm |-> perm]

\* store a composer value, the wires handed back to the caller, and the call
Commit(cs, op, args, ret, wires) ==
    /\ witness' = cs.witness
    /\ constraints' = cs.constraints
    /\ instance' = cs.instance
    /\ perm' = cs.perm
    /\ issued' = issued \cup wires
    /\ call' = [op |-> op, args |-> args, ret |-> ret]
    /\ step' = step + 1
    /\ UNCHANGED << input, transcript, local, pc >>

\* the composer after construction
InitComposer ==
    /\ witness = initialize.witness
    /\ constraints = initialize.constraints
    /\ instance = initialize.instance
    /\ perm = initialize.perm
    /\ issued = {ZERO, ONE}
    /\ call = [op |-> "initialize", args |-> << >>, ret |-> None]
    /\ step = 0

\* no verification is under way while a circuit is composed
Init ==
    /\ InitComposer
    /\ input = None
    /\ transcript = << >>
    /\ local = None
    /\ pc = "idle"

\* ---- inputs the caller supplies ----

\* witness values used where the whole field is too many
Sample == {0, 2, Modulus - 1}

\* num_bits arguments: even and odd, below, at and above the clamp
NumBits == {0, 1, 2, 3, 4, 55, FieldBits, FieldBits + 2}

\* num_bits arguments of component_range: none, part of a row, one row, more
RangeBits == {0, 2, 3, 8, 10}

\* a gate of the caller on wire a: q_l * a + q_d * a + pi
CallerGate(a, public) ==
    [ConstraintDefault EXCEPT !.w_a = a, !.w_d = a, !.q_l = 1, !.q_d = 1,
                              !.public_input = public]

CallerGates == {CallerGate(a, p) : a \in issued, p \in {None, Some(2)}}

\* a widget row of the caller, as append_custom_gate takes it
CallerRows ==
    {[CallerGate(a, p) EXCEPT !.q_range = 1] : a \in issued, p \in {None, Some(5)}}

\* constraints handed to append_evaluated_output, gate_add and gate_mul
CallerOutputs(A, B, D, Qm, Ql, Qr, Qd, Qc, Qo, Pi) ==
    {[ConstraintDefault EXCEPT
        !.w_a = a, !.w_b = b, !.w_d = d,
        !.q_m = qm, !.q_l = ql, !.q_r = qr, !.q_d = qd, !.q_c = qc, !.q_o = qo,
        !.public_input = p] :
        a \in A, b \in B, d \in D, qm \in Qm, ql \in Ql, qr \in Qr, qd \in Qd,
        qc \in Qc, qo \in Qo, p \in Pi}

\* few of them, on any issued wire
FewOutputs ==
    CallerOutputs(issued, {ONE}, {ZERO}, {1}, {1}, {2}, {0}, {0}, {0, 1}, {None})

\* many of them, on the wires of the first two allocations
ManyOutputs(Qo) ==
    CallerOutputs({NextWire(Cs) - 2}, {NextWire(Cs) - 1}, {ONE, NextWire(Cs) - 2},
                  {0, 1, 2}, {0, 1}, {0, Modulus - 1}, {0, 1}, {0, 3}, Qo,
                  {None, Some(2)})

\* ---- one action per composer operation ----

AppendWitness(V) ==
    \E v \in V :
        Commit(append_witness(Cs, v), "append_witness", << v >>,
               Some(NextWire(Cs)), {NextWire(Cs)})

AppendCustomGate(G) ==
    \E c \in G :
        Commit(append_custom_gate(Cs, c), "append_custom_gate", << c >>, None, {})

AppendGate(G) ==
    \E c \in G :
        Commit(append_gate(Cs, c), "append_gate", << c >>, None, {})

AppendEvaluatedOutput(G) ==
    \E s \in G :
        \E r \in {append_evaluated_output(Cs, s)} :
            Commit(r.cs, "append_evaluated_output", << s >>, r.ret,
                   {r.ret[i] : i \in DOMAIN r.ret})

AppendDummyGates ==
    Commit(append_dummy_gates(Cs), "append_dummy_gates", << >>, None, {})

AppendConstant(V) ==
    \E k \in V :
        \E r \in {append_constant(Cs, k)} :
            Commit(r.cs, "append_constant", << k >>, Some(r.ret), {r.ret})

AppendPublic(V) ==
    \E v \in V :
        \E r \in {append_public(Cs, v)} :
            Commit(r.cs, "append_public", << v >>, Some(r.ret), {r.ret})

AssertEqual(A, B) ==
    \E a \in A, b \in B :
        Commit(assert_equal(Cs, a, b), "assert_equal", << a, b >>, None, {})

AssertEqualConstant(A, K, Pi) ==
    \E a \in A, k \in K, p \in Pi :
        Commit(assert_equal_constant(Cs, a, k, p), "assert_equal_constant",
               << a, k, p >>, None, {})

ComponentBoolean(A) ==
    \E a \in A :
        Commit(component_boolean(Cs, a), "component_boolean", << a >>, None, {})

GateAdd(G) ==
    \E s \in G :
        \E r \in {gate_add(Cs, s)} :
            Commit(r.cs, "gate_add", << s >>, Some(r.ret), {r.ret})

GateMul(G) ==
    \E s \in G :
        \E r \in {gate_mul(Cs, s)} :
            Commit(r.cs, "gate_mul", << s >>, Some(r.ret), {r.ret})

AppendLogicAnd(A, B, N) ==
    \E a \in A, b \in B, n \in N :
        \E r \in {append_logic_and(Cs, a, b, n)} :
            Commit(r.cs, "append_logic_and", << a, b, n >>, Some(r.ret), {r.ret})

ComponentRange(A, N) ==
    \E a \in A, n \in N :
        /\ RangeInBounds(n)
        /\ \E r \in {component_range(Cs, a, n)} :
              Commit(r, "component_range", << a, n >>, None, {})

AppendLogicXor(A, B, N) ==
    \E a \in A, b \in B, n \in N :
        \E r \in {append_logic_xor(Cs, a, b, n)} :
            Commit(r.cs, "append_logic_xor", << a, b, n >>, Some(r.ret), {r.ret})

ComponentMulGenerator(A, G, W) ==
    \E a \in A, g \in G, w \in W :
        \E wnaf_entries \in {compute_windowed_naf(Value(Cs, a), w)} :
        \E r \in {component_mul_generator(Cs, a, g, wnaf_entries)} :
            Commit(r.cs, "component_mul_generator", << a, g, wnaf_entries >>, r.ret,
                   IF r.ret[1] = "Ok" THEN {r.ret[2].x, r.ret[2].y} ELSE {})

ComponentDecomposition(A, Ns) ==
    \E a \in A, N \in Ns :
        /\ 0 < N /\ N <= 256
        /\ \E r \in {component_decomposition(Cs, a, N)} :
              Commit(r.cs, "component_decomposition", << a, N >>, r.ret,
                     {r.ret[i] : i \in DOMAIN r.ret})

ComponentSelect(Z, A, B) ==
    \E bit \in Z, a \in A, b \in B :
        \E r \in {component_select(Cs, bit, a, b)} :
            Commit(r.cs, "component_select", << bit, a, b >>, Some(r.ret), {r.ret})

ComponentSelectPoint(Z, A, B) ==
    \E bit \in Z, a \in A, b \in B :
        \E r \in {component_select_point(Cs, bit, a, b)} :
            Commit(r.cs, "component_select_point", << bit, a, b >>, Some(r.ret),
                   {r.ret.x, r.ret.y})

AppendPoint(P) ==
    \E affine \in P :
        \E r \in {append_point(Cs, affine)} :
            Commit(r.cs, "append_point", << affine >>, Some(r.ret),
                   {r.ret.x, r.ret.y})

ComponentAddPoint(A, B) ==
    \E a \in A, b \in B :
        \E r \in {component_add_point(Cs, a, b)} :
            Commit(r.cs, "component_add_point", << a, b >>, Some(r.ret),
                   {r.ret.x, r.ret.y})

ComponentSelectIdentity(Z, A) ==
    \E bit \in Z, a \in A :
        \E r \in {component_select_identity(Cs, bit, a)} :
            Commit(r.cs, "component_select_identity", << bit, a >>, Some(r.ret),
                   {r.ret.x, r.ret.y})

ComponentMulPoint(S, A) ==
    \E jubjub \in S, point \in A :
        \E r \in {component_mul_point(Cs, jubjub, point)} :
            Commit(r.cs, "component_mul_point", << jubjub, point >>, Some(r.ret),
                   {r.ret.x, r.ret.y})

\* ---- any sequence of at most MaxOps operations on issued wires ----

Next ==
    \/ step < MaxOps /\ AppendWitness(Sample)
    \/ step < MaxOps /\ AppendCustomGate(CallerRows)
    \/ step < MaxOps /\ AppendGate(CallerGates)
    \/ step < MaxOps /\ AppendEvaluatedOutput(FewOutputs)
    \/ step < MaxOps /\ AppendDummyGates
    \/ step < MaxOps /\ AppendConstant({0, 3})
    \/ step < MaxOps /\ AppendPublic({0, 3})
    \/ step < MaxOps /\ AssertEqual(issued, issued)
    \/ step < MaxOps /\ AssertEqualConstant(issued, {1}, {None, Some(3)})
    \/ step < MaxOps /\ ComponentBoolean(issued)
    \/ step < MaxOps /\ GateAdd(FewOutputs)
    \/ step < MaxOps /\ GateMul(FewOutputs)
    \/ step < MaxOps /\ AppendLogicAnd(issued, issued, {0, 2, 3})
    \/ step < MaxOps /\ AppendLogicXor(issued, issued, {0, 2})
    \/ step < MaxOps /\ ComponentRange(issued, RangeBits)

Spec == Init /\ [][Next]_vars

\* ---- two allocations of any values, then one gate-building operation ----

NextGate ==
    \/ step < 2 /\ AppendWitness(F)
    \/ step = 2 /\ AppendPublic(F)
    \/ step = 2 /\ AppendEvaluatedOutput(ManyOutputs({0, 1, 2, Modulus - 1}))
    \/ step = 2 /\ GateAdd(ManyOutputs({0, 2}))
    \/ step = 2 /\ GateMul(ManyOutputs({0, 2}))

SpecGate == Init /\ [][NextGate]_vars

\* ---- the circuit of tests/logic.rs: w_a, w_b, w_c, the gadget, assert_equal ----

NextLogic ==
    \/ step < 2 /\ AppendWitness(F)
    \/ step = 2 /\ AppendWitness(Sample \cup {3})
    \/ step = 3 /\ AppendLogicAnd({NextWire(Cs) - 3}, {NextWire(Cs) - 2}, NumBits)
    \/ step = 3 /\ AppendLogicXor({NextWire(Cs) - 3}, {NextWire(Cs) - 2}, NumBits)
    \/ step = 4 /\ AssertEqual({call.args[1] + 2}, {call.ret[1]})

SpecLogic == Init /\ [][NextLogic]_vars

\* ---- one allocation of any value, then the range gadget or the
\* ---- decomposition on it

\* num_bits arguments: none, odd and even, part of a row to the whole width
RangeBitsAll == (0 .. 24) \cup {55, 64, 128, FieldBits - 2, FieldBits - 1, FieldBits}

\* widths N of component_decomposition: below, at and above the three bits
\* of the values of the field, to the whole width, and outside 0 < N <= 256
DecompositionBits == (0 .. 8) \cup {252, 256, 257}

NextRange ==
    \/ step = 0 /\ AppendWitness(F)
    \/ step = 1 /\ ComponentRange({NextWire(Cs) - 1}, RangeBitsAll)
    \/ step = 1 /\ ComponentDecomposition({NextWire(Cs) - 1}, DecompositionBits)

SpecRange == Init /\ [][NextRange]_vars

\* ---- one allocation of any value, the fixed-base multiplication by it,
\* ---- then a constant assertion on a coordinate of the product

\* generators of order 12, 3 and 4
Generators == {<< 3, 2 >>, << 2, 4 >>, << 1, 0 >>}

\* the decomposition compute_windowed_naf hands back is an input: the
\* width-2 form the call asks for, whose digits are -1, 0, 1, and the width-3
\* form, which has digits -3 and 3 as well
WnafWidths == {2, 3}

NextMul ==
    \/ step = 0 /\ AppendWitness(F)
    \/ step = 1 /\ ComponentMulGenerator({NextWire(Cs) - 1}, Generators, WnafWidths)
    \/ step = 2 /\ call.ret[1] = "Ok"
                /\ AssertEqualConstant({call.ret[2].x, call.ret[2].y}, {0, 1, 2}, {None})

SpecMul == Init /\ [][NextMul]_vars

\* ---- a bit z and two values a, b of any value, then a selection ----

NextSelect ==
    \/ step < 3 /\ AppendWitness(F)
    \/ step = 3 /\ ComponentSelect({NextWire(Cs) - 3}, {NextWire(Cs) - 2},
                                    {NextWire(Cs) - 1})
    \/ step = 3 /\ ComponentSelectPoint(
                       {NextWire(Cs) - 3},
                       {WitnessPoint(NextWire(Cs) - 2, NextWire(Cs) - 1)},
                       {WitnessPoint(NextWire(Cs) - 1, NextWire(Cs) - 3)})

SpecSelect == Init /\ [][NextSelect]_vars

\* ---- a scalar of any value and a point of the curve; then the point is
\* ---- selected on the scalar or multiplied by it, or a second point is
\* ---- allocated and added to the first or to itself

NextPoint ==
    \/ step = 0 /\ AppendWitness(F)
    \/ step \in {1, 2} /\ AppendPoint(CurvePoints)
    \/ step = 2 /\ ComponentSelectIdentity(
                       {NextWire(Cs) - 3},
                       {WitnessPoint(NextWire(Cs) - 2, NextWire(Cs) - 1)})
    \/ step = 2 /\ ComponentMulPoint(
                       {NextWire(Cs) - 3},
                       {WitnessPoint(NextWire(Cs) - 2, NextWire(Cs) - 1)})
    \/ step = 3 /\ call.op = "append_point"
                /\ ComponentAddPoint(
                       {WitnessPoint(NextWire(Cs) - 4, NextWire(Cs) - 3)},
                       {WitnessPoint(NextWire(Cs) - 4, NextWire(Cs) - 3),
                        WitnessPoint(NextWire(Cs) - 2, NextWire(Cs) - 1)})

SpecPoint == Init /\ [][NextPoint]_vars

\* ---- two allocations of any values, one gate-emitting operation on them,
\* ---- then another operation emitting a computed gate

\* constraints handed to gate_add and gate_mul, with every selector they read
SelectorOutputs ==
    CallerOutputs({NextWire(Cs) - 2}, {NextWire(Cs) - 1}, {ONE},
                  {0, 1}, {0, 1}, {0, Modulus - 1}, {0, 1}, {0, 3}, {0},
                  {None, Some(2)})

NextSatisfy ==
    \/ step < 2 /\ AppendWitness(F)
    \/ step = 2 /\ AppendDummyGates
    \/ step = 2 /\ AppendConstant(F)
    \/ step \in {2, 3} /\ AppendPublic({3})
    \/ step = 2 /\ GateAdd(SelectorOutputs)
    \/ step = 2 /\ GateMul(SelectorOutputs)
    \/ step = 3 /\ GateMul(FewOutputs)
    \/ step = 2 /\ ComponentSelect({NextWire(Cs) - 2}, {NextWire(Cs) - 1},
                                   {ONE, NextWire(Cs) - 2})
    \/ step = 2 /\ ComponentSelectIdentity({NextWire(Cs) - 2},
                       {WitnessPoint(NextWire(Cs) - 1, NextWire(Cs) - 2)})
    \/ step = 2 /\ ComponentDecomposition({NextWire(Cs) - 1}, {1, 2, 3, 256})
    \/ step = 2 /\ AssertEqual({NextWire(Cs) - 2}, {NextWire(Cs) - 1})
    \/ step = 2 /\ AssertEqualConstant({NextWire(Cs) - 1}, {1}, {None, Some(3)})
    \/ step = 2 /\ ComponentBoolean({NextWire(Cs) - 1})
    \/ step = 2 /\ AppendGate(CallerGates)

SpecSatisfy == Init /\ [][NextSatisfy]_vars

-----------------------------------------------------------------------------
(* The verifier (src/src/proof_system/proof.rs, widget.rs)                  *)
(*                                                                         *)
(* G1 is a group of prime order, the order of the scalar field: a          *)
(* commitment is modelled by its discrete logarithm, an element of F, so   *)
(* that the sum of two commitments is Add and a commitment times a scalar  *)
(* is Mul.  The transcript is the sequence of the operations made on it:   *)
(* what it absorbed under which label, and which challenge it gave.        *)

G1 == F

RECURSIVE pow(_, _)
pow(x, k) == IF k = 0 THEN 1 ELSE Mul(x, pow(x, k - 1))

\* ---- transcript::TranscriptProtocol ----

append_commitment(t, label, comm) ==
    Append(t, [op |-> "append_commitment", label |-> label, value |-> comm])

append_scalar(t, label, s) ==
    Append(t, [op |-> "append_scalar", label |-> label, value |-> s])

\* the transcript after it gave the challenge c
challenge_scalar(t, label, c) ==
    Append(t, [op |-> "challenge_scalar", label |-> label, value |-> c])

circuit_domain_sep(t, n) ==
    Append(t, [op |-> "circuit_domain_sep", label |-> "n", value |-> n])

\* ---- VerificationKey::seed_transcript ----

\* mutant: the circuit size is not appended
seed_transcript_NoDomainSep(vk, t) == append_commitment(t, "q_m", vk.q_m)

seed_transcript(vk, t) ==
    LET t1 == append_commitment(t, "q_m", vk.q_m)
        t2 == append_commitment(t1, "q_l", vk.q_l)
        t3 == append_commitment(t2, "q_r", vk.q_r)
        t4 == append_commitment(t3, "q_o", vk.q_o)
        t5 == append_commitment(t4, "q_c", vk.q_c)
        t6 == append_commitment(t5, "q_4", vk.q_4)
        t7 == append_commitment(t6, "q_arith", vk.q_arith)
        t8 == append_commitment(t7, "q_range", vk.q_range)
        t9 == append_commitment(t8, "q_logic", vk.q_logic)
        t10 == append_commitment(t9, "q_variable_group_add",
                                 vk.q_variable_group_add)
        t11 == append_commitment(t10, "q_fixed_group_add", vk.q_fixed_group_add)
        t12 == append_commitment(t11, "s_sigma_1", vk.s_sigma_1)
        t13 == append_commitment(t12, "s_sigma_2", vk.s_sigma_2)
        t14 == append_commitment(t13, "s_sigma_3", vk.s_sigma_3)
        t15 == append_commitment(t14, "s_sigma_4", vk.s_sigma_1)
    IN  circuit_domain_sep(t15, vk.n)

\* ---- fft::EvaluationDomain ----

next_power_of_two(n) ==
    CHOOSE p \in 1 .. (2 * n) + 1 :
        /\ p >= n
        /\ \E k \in 0 .. n : p = Pow2(k)
        /\ \A q \in 1 .. (p - 1) : q >= n => ~ \E k \in 0 .. n : q = Pow2(k)

\* the largest s for which 2^s divides the order of the multiplicative group
TwoAdicity ==
    CHOOSE s \in 0 .. Modulus :
        /\ (Modulus - 1) % Pow2(s) = 0
        /\ (Modulus - 1) % Pow2(s + 1) # 0

\* the domain of the n-th roots of unity for the next power of two n, or an
\* error when the field has no such roots
EvaluationDomain_new(num_coeffs) ==
    LET size == next_power_of_two(num_coeffs)
        gen == CHOOSE g \in F \ {0} :
                   /\ pow(g, size) = 1
                   /\ \A k \in 1 .. (size - 1) : pow(g, k) # 1
    IN  IF size > Pow2(TwoAdicity) THEN Err("DomainTooLarge")
        ELSE Ok([size |-> size,
                 size_inv |-> Invert(FromInt(size))[1],
                 group_gen |-> gen,
                 group_gen_inv |-> Invert(gen)[1]])

\* ---- util::batch_inversion: every non-zero element is inverted ----

batch_inversion(v) ==
    [i \in 1 .. Len(v) |-> IF v[i] = 0 THEN 0 ELSE Invert(v[i])[1]]

\* ---- zero_kzg Polynomial::t: the vanishing polynomial of the domain ----

Polynomial_t(n, tau) == Sub(pow(tau, n), 1)

\* ---- proof.rs ----

\* the outcome of a call that panicked, as a result
Panic == << "Panic", "called Option::unwrap() on a None value" >>

\* what a call that may panic gives
Panicked == [panic |-> TRUE, value |-> 0]

Returned(v) == [panic |-> FALSE, value |-> v]

\* z_h_eval / (n (z - 1)); the unwrap panics on a zero denominator
compute_first_lagrange_evaluation(domain, z_h_eval, z_challenge) ==
    LET n_fr == FromInt(domain.size)
        denom == Mul(n_fr, Sub(z_challenge, 1))
    IN  IF Invert(denom) = None THEN Panicked
        ELSE Returned(Mul(z_h_eval, Invert(denom)[1]))

RECURSIVE SumSeq(_, _)
SumSeq(v, i) == IF i = 0 THEN 0 ELSE Add(SumSeq(v, i - 1), v[i])

\* the indices (from 0) below j of the non-zero entries of v, in increasing
\* order
RECURSIVE NonZeroIndices(_, _)
NonZeroIndices(v, j) ==
    IF j = 0 THEN << >>
    ELSE IF v[j] # 0 THEN Append(NonZeroIndices(v, j - 1), j - 1)
         ELSE NonZeroIndices(v, j - 1)

\* mutant: the denominators are not multiplied by the evaluations
compute_barycentric_eval_NoEval(evaluations, point, domain) ==
    LET numerator == Mul(Sub(pow(point, domain.size), 1), domain.size_inv)
        denominators ==
            batch_inversion(
                [i \in 1 .. Len(evaluations) |->
                    Sub(Mul(pow(domain.group_gen_inv, i - 1), point), 1)])
    IN  Mul(SumSeq(denominators, Len(denominators)), numerator)

compute_barycentric_eval(evaluations, point, domain) ==
    LET numerator == Mul(Sub(pow(point, domain.size), 1), domain.size_inv)
        non_zero_evaluations ==
            NonZeroIndices(evaluations, Len(evaluations))
        denominators ==
            batch_inversion(
                [i \in 1 .. Len(non_zero_evaluations) |->
                    Sub(Mul(pow(domain.group_gen_inv, non_zero_evaluations[i]),
                            point), 1)])
        products ==
            [i \in 1 .. Len(non_zero_evaluations) |->
                Mul(denominators[i], evaluations[non_zero_evaluations[i] + 1])]
    IN  Mul(SumSeq(products, Len(products)), numerator)

\* (r + PI(z) - b - l_1(z) alpha^2) / z_h(z); the unwrap panics when z_h(z)
\* is zero
compute_quotient_evaluation(proof, domain, pub_inputs, alpha, beta, gamma, z_challenge, z_h_eval, l1_eval, z_hat_eval) ==
    LET pi_eval == compute_barycentric_eval(pub_inputs, z_challenge, domain)
        alpha_sq == Mul(alpha, alpha)
        a == Add(proof.r_poly_eval, pi_eval)
        b_0 == Add(Add(proof.a_eval, Mul(beta, proof.s_sigma_1_eval)), gamma)
        b_1 == Add(Add(proof.b_eval, Mul(beta, proof.s_sigma_2_eval)), gamma)
        b_2 == Add(Add(proof.c_eval, Mul(beta, proof.s_sigma_3_eval)), gamma)
        b_3 == Mul(Mul(Add(proof.d_eval, gamma), z_hat_eval), alpha)
        b == Mul(Mul(Mul(b_0, b_1), b_2), b_3)
        c == Mul(l1_eval, alpha_sq)
    IN  IF Invert(z_h_eval) = None THEN Panicked
        ELSE Returned(Mul(Sub(Sub(a, b), c), Invert(z_h_eval)[1]))

compute_quotient_commitment(proof, z_challenge, n) ==
    LET z_n == pow(z_challenge, n)
        z_two_n == pow(z_challenge, 2 * n)
        z_three_n == pow(z_challenge, 3 * n)
    IN  Add(Add(Add(proof.t_low_comm, Mul(proof.t_mid_comm, z_n)),
                Mul(proof.t_high_comm, z_two_n)),
            Mul(proof.t_4_comm, z_three_n))

\* ---- commitment_scheme::AggregateProof ----

AggregateProof_with_witness(witness_commitment) ==
    [witness_commitment |-> witness_commitment, parts |-> << >>]

add_part(ap, part) == [ap EXCEPT !.parts = Append(@, part)]

\* the parts combined with the powers of the challenge v
flatten(ap, v) ==
    [eval |-> SumSeq([i \in 1 .. Len(ap.parts) |->
                         Mul(pow(v, i - 1), ap.parts[i][1])], Len(ap.parts)),
     comm |-> SumSeq([i \in 1 .. Len(ap.parts) |->
                         Mul(pow(v, i - 1), ap.parts[i][2])], Len(ap.parts)),
     witness_commitment |-> ap.witness_commitment]

\* ---- the inputs of a verification ----

ProofFields ==
    << "a_comm", "b_comm", "c_comm", "d_comm", "z_comm", "t_low_comm",
       "t_mid_comm", "t_high_comm", "t_4_comm", "w_z_chall_comm",
       "w_z_chall_w_comm", "a_eval", "b_eval", "c_eval", "d_eval",
       "a_next_eval", "b_next_eval", "d_next_eval", "q_arith_eval", "q_c_eval",
       "q_l_eval", "q_r_eval", "s_sigma_1_eval", "s_sigma_2_eval",
       "s_sigma_3_eval", "r_poly_eval", "perm_eval" >>

KeyFields ==
    << "q_m", "q_l", "q_r", "q_o", "q_c", "q_4", "q_arith", "q_range",
       "q_logic", "q_variable_group_add", "q_fixed_group_add", "s_sigma_1",
       "s_sigma_2", "s_sigma_3", "s_sigma_4", "n" >>

\* the p-th digit in base Modulus of the position of a field: any two fields
\* differ in sample 0 or in sample 1
SampleValue(fields, f, p) ==
    LET i == CHOOSE k \in 1 .. Len(fields) : fields[k] = f
    IN  IF p = 0 THEN i % Modulus ELSE (i \div Modulus) % Modulus

SampleProof(p) ==
    [f \in {ProofFields[k] : k \in 1 .. Len(ProofFields)} |->
        SampleValue(ProofFields, f, p)]

SampleKey(p, n) ==
    [f \in {KeyFields[k] : k \in 1 .. Len(KeyFields)} |->
        IF f = "n" THEN n ELSE SampleValue(KeyFields, f, p)]

\* circuit sizes: the last one has no evaluation domain in the scaled field
CircuitSizes == {1, 2, 3}

\* the sample keys, and the keys that differ from them in s_sigma_4 only
Keys ==
    UNION {{SampleKey(p, n), [SampleKey(p, n) EXCEPT !.s_sigma_4 = Add(@, 3)]} :
              p \in {0, 1}, n \in CircuitSizes}

PublicInputs == {<< >>, << 3 >>, << 0, 5 >>, << 2, 0 >>, << 4, 6 >>, << 0, 0 >>}

\* what the transcript may give as a challenge
Challenges == F

FewChallenges == {2, 5}

LocalInit ==
    [n |-> None, domain |-> None, beta |-> None, gamma |-> None,
     alpha |-> None, range_sep_challenge |-> None,
     logic_sep_challenge |-> None, fixed_base_sep_challenge |-> None,
     var_base_sep_challenge |-> None, z_challenge |-> None,
     z_h_eval |-> None, l1_eval |-> None, pi_eval |-> None, t_eval |-> None,
     t_comm |-> None, r_comm |-> None, aggregate_proof |-> None,
     shifted_aggregate_proof |-> None, flattened_proof_a |-> None,
     flattened_proof_b |-> None, batch_check |-> None, result |-> None]

InitVerify ==
    /\ InitComposer
    /\ \E p \in {0, 1} :
           input \in [vk : {k \in Keys : k.q_m = SampleKey(p, 1).q_m
                                         /\ k.q_c = SampleKey(p, 1).q_c},
                      proof : {SampleProof(p)},
                      pub_inputs : PublicInputs]
    /\ transcript = << >>
    /\ local = LocalInit
    /\ pc = "seed"

\* ---- one action per statement group of the verifier ----

Goto(next, t, l) ==
    /\ pc' = next
    /\ transcript' = t
    /\ local' = l
    /\ UNCHANGED << input, witness, constraints, instance, perm, issued, call,
                    step >>

\* Verifier::verify seeds the transcript with the key before Proof::verify
SeedTranscript ==
    /\ pc = "seed"
    /\ Goto("verify", seed_transcript(input.vk, transcript), local)

\* proof.rs 82-83
VerifyDomain ==
    /\ pc = "verify"
    /\ \E n \in {next_power_of_two(input.vk.n)},
          domain \in {EvaluationDomain_new(input.vk.n)} :
           IF domain[1] = "Err"
           THEN Goto("done", transcript, [local EXCEPT !.n = n, !.result = domain])
           ELSE Goto("witness_commitments", transcript,
                     [local EXCEPT !.n = n, !.domain = domain[2]])

\* proof.rs 95-98
VerifyWitnessCommitments ==
    /\ pc = "witness_commitments"
    /\ LET t1 == append_commitment(transcript, "a_w", input.proof.a_comm)
           t2 == append_commitment(t1, "b_w", input.proof.b_comm)
           t3 == append_commitment(t2, "c_w", input.proof.c_comm)
           t4 == append_commitment(t3, "d_w", input.proof.d_comm)
       IN  Goto("beta_gamma", t4, local)

\* mutant: gamma is drawn before beta is appended again
VerifyBetaGamma_GammaFirst ==
    /\ pc = "beta_gamma"
    /\ \E beta, gamma \in FewChallenges :
           LET t1 == challenge_scalar(transcript, "beta", beta)
               t2 == challenge_scalar(t1, "gamma", gamma)
               t3 == append_scalar(t2, "beta", beta)
           IN  Goto("permutation_commitment", t3,
                    [local EXCEPT !.beta = beta, !.gamma = gamma])

\* proof.rs 101-103
VerifyBetaGamma ==
    /\ pc = "beta_gamma"
    /\ \E beta, gamma \in FewChallenges :
           LET t1 == challenge_scalar(transcript, "beta", beta)
               t2 == append_scalar(t1, "beta", beta)
               t3 == challenge_scalar(t2, "gamma", gamma)
           IN  Goto("permutation_commitment", t3,
                    [local EXCEPT !.beta = beta, !.gamma = gamma])

\* proof.rs 106
VerifyPermutationCommitment ==
    /\ pc = "permutation_commitment"
    /\ Goto("quotient_challenges",
            append_commitment(transcript, "z", input.proof.z_comm), local)

\* proof.rs 109-117
VerifyQuotientChallenges ==
    /\ pc = "quotient_challenges"
    /\ \E alpha, range \in FewChallenges, logic \in {3}, fixed \in {4}, var \in {6} :
           LET t1 == challenge_scalar(transcript, "alpha", alpha)
               t2 == challenge_scalar(t1, "range separation challenge", range)
               t3 == challenge_scalar(t2, "logic separation challenge", logic)
               t4 == challenge_scalar(t3, "fixed base separation challenge", fixed)
               t5 == challenge_scalar(t4, "variable base separation challenge", var)
           IN  Goto("quotient_commitments", t5,
                    [local EXCEPT !.alpha = alpha,
                                  !.range_sep_challenge = range,
                                  !.logic_sep_challenge = logic,
                                  !.fixed_base_sep_challenge = fixed,
                                  !.var_base_sep_challenge = var])

\* proof.rs 120-123
VerifyQuotientCommitments ==
    /\ pc = "quotient_commitments"
    /\ LET t1 == append_commitment(transcript, "t_low", input.proof.t_low_comm)
           t2 == append_commitment(t1, "t_mid", input.proof.t_mid_comm)
           t3 == append_commitment(t2, "t_high", input.proof.t_high_comm)
           t4 == append_commitment(t3, "t_4", input.proof.t_4_comm)
       IN  Goto("evaluation_challenge", t4, local)

\* proof.rs 126-151: the evaluation challenge, z_h(z), l_1(z), the quotient
\* evaluation (with the public-input evaluation) and the quotient commitment
VerifyEvaluationChallenge ==
    /\ pc = "evaluation_challenge"
    /\ \E z_challenge \in Challenges :
       \E z_h_eval \in {Polynomial_t(local.n, z_challenge)} :
       \E l1_eval \in {compute_first_lagrange_evaluation(local.domain, z_h_eval,
                                                         z_challenge)} :
           LET t1 == challenge_scalar(transcript, "z_challenge", z_challenge)
               l1 == [local EXCEPT !.z_challenge = z_challenge,
                                   !.z_h_eval = z_h_eval]
           IN  IF l1_eval.panic
               THEN Goto("done", t1, [l1 EXCEPT !.result = Panic])
               ELSE
                 \E t_eval \in {compute_quotient_evaluation(input.proof,
                                   local.domain, input.pub_inputs, local.alpha,
                                   local.beta, local.gamma, z_challenge, z_h_eval,
                                   l1_eval.value, input.proof.perm_eval)} :
                   LET l2 == [l1 EXCEPT !.l1_eval = l1_eval.value,
                                  !.pi_eval = compute_barycentric_eval(
                                      input.pub_inputs, z_challenge, local.domain)]
                   IN  IF t_eval.panic
                       THEN Goto("done", t1, [l2 EXCEPT !.result = Panic])
                       ELSE Goto("evaluations", t1,
                                 [l2 EXCEPT !.t_eval = t_eval.value,
                                      !.t_comm = compute_quotient_commitment(
                                          input.proof, z_challenge, local.n)])

\* proof.rs 154-174
VerifyEvaluations ==
    /\ pc = "evaluations"
    /\ LET e == input.proof
           t1 == append_scalar(transcript, "a_eval", e.a_eval)
           t2 == append_scalar(t1, "b_eval", e.b_eval)
           t3 == append_scalar(t2, "c_eval", e.c_eval)
           t4 == append_scalar(t3, "d_eval", e.d_eval)
           t5 == append_scalar(t4, "a_next_eval", e.a_next_eval)
           t6 == append_scalar(t5, "b_next_eval", e.b_next_eval)
           t7 == append_scalar(t6, "d_next_eval", e.d_next_eval)
           t8 == append_scalar(t7, "s_sigma_1_eval", e.s_sigma_1_eval)
           t9 == append_scalar(t8, "s_sigma_2_eval", e.s_sigma_2_eval)
           t10 == append_scalar(t9, "s_sigma_3_eval", e.s_sigma_3_eval)
           t11 == append_scalar(t10, "q_arith_eval", e.q_arith_eval)
           t12 == append_scalar(t11, "q_c_eval", e.q_c_eval)
           t13 == append_scalar(t12, "q_l_eval", e.q_l_eval)
           t14 == append_scalar(t13, "q_r_eval", e.q_r_eval)
           t15 == append_scalar(t14, "perm_eval", e.perm_eval)
           t16 == append_scalar(t15, "t_eval", local.t_eval)
           t17 == append_scalar(t16, "r_eval", e.r_poly_eval)
       IN  Goto("linearization", t17, local)

\* proof.rs 177-190: the linearization commitment is the sum the widgets of
\* the key make, any element of the group
VerifyLinearization ==
    /\ pc = "linearization"
    /\ \E r_comm \in {1, 4} :
           Goto("aggregate", transcript, [local EXCEPT !.r_comm = r_comm])

\* mutant: the parts of sigma_1 and sigma_2 change places
VerifyAggregate_SigmaSwapped ==
    /\ pc = "aggregate"
    /\ \E v \in FewChallenges :
           LET e == input.proof
               vk == input.vk
               p0 == AggregateProof_with_witness(e.w_z_chall_comm)
               p1 == add_part(p0, << local.t_eval, local.t_comm >>)
               p2 == add_part(p1, << e.r_poly_eval, local.r_comm >>)
               p3 == add_part(p2, << e.a_eval, e.a_comm >>)
               p4 == add_part(p3, << e.b_eval, e.b_comm >>)
               p5 == add_part(p4, << e.c_eval, e.c_comm >>)
               p6 == add_part(p5, << e.d_eval, e.d_comm >>)
               p7 == add_part(p6, << e.s_sigma_2_eval, vk.s_sigma_2 >>)
               p8 == add_part(p7, << e.s_sigma_1_eval, vk.s_sigma_1 >>)
               p9 == add_part(p8, << e.s_sigma_3_eval, vk.s_sigma_3 >>)
           IN  Goto("shifted_aggregate",
                    challenge_scalar(transcript, "aggregate_challenge", v),
                    [local EXCEPT !.aggregate_proof = p9,
                                  !.flattened_proof_a = flatten(p9, v)])

\* proof.rs 202-223
VerifyAggregate ==
    /\ pc = "aggregate"
    /\ \E v \in FewChallenges :
           LET e == input.proof
               vk == input.vk
               p0 == AggregateProof_with_witness(e.w_z_chall_comm)
               p1 == add_part(p0, << local.t_eval, local.t_comm >>)
               p2 == add_part(p1, << e.r_poly_eval, local.r_comm >>)
               p3 == add_part(p2, << e.a_eval, e.a_comm >>)
               p4 == add_part(p3, << e.b_eval, e.b_comm >>)
               p5 == add_part(p4, << e.c_eval, e.c_comm >>)
               p6 == add_part(p5, << e.d_eval, e.d_comm >>)
               p7 == add_part(p6, << e.s_sigma_1_eval, vk.s_sigma_1 >>)
               p8 == add_part(p7, << e.s_sigma_2_eval, vk.s_sigma_2 >>)
               p9 == add_part(p8, << e.s_sigma_3_eval, vk.s_sigma_3 >>)
           IN  Goto("shifted_aggregate",
                    challenge_scalar(transcript, "aggregate_challenge", v),
                    [local EXCEPT !.aggregate_proof = p9,
                                  !.flattened_proof_a = flatten(p9, v)])

\* proof.rs 226-237
VerifyShiftedAggregate ==
    /\ pc = "shifted_aggregate"
    /\ \E v \in FewChallenges :
           LET e == input.proof
               p0 == AggregateProof_with_witness(e.w_z_chall_w_comm)
               p1 == add_part(p0, << e.perm_eval, e.z_comm >>)
               p2 == add_part(p1, << e.a_next_eval, e.a_comm >>)
               p3 == add_part(p2, << e.b_next_eval, e.b_comm >>)
               p4 == add_part(p3, << e.d_next_eval, e.d_comm >>)
           IN  Goto("opening_commitments",
                    challenge_scalar(transcript, "aggregate_challenge", v),
                    [local EXCEPT !.shifted_aggregate_proof = p4,
                                  !.flattened_proof_b = flatten(p4, v)])

\* proof.rs 239-240
VerifyOpeningCommitments ==
    /\ pc = "opening_commitments"
    /\ LET t1 == append_commitment(transcript, "w_z", input.proof.w_z_chall_comm)
           t2 == append_commitment(t1, "w_z_w", input.proof.w_z_chall_w_comm)
       IN  Goto("batch_check", t2, local)

\* proof.rs 242-253: the opening key accepts the two openings or not
VerifyBatchCheck ==
    /\ pc = "batch_check"
    /\ \E accepted \in BOOLEAN :
           Goto("done", transcript,
                [local EXCEPT
                    !.batch_check =
                        [points |-> << local.z_challenge,
                                       Mul(local.z_challenge,
                                           local.domain.group_gen) >>,
                         proofs |-> << local.flattened_proof_a,
                                       local.flattened_proof_b >>],
                    !.result = IF accepted THEN Ok(<< >>)
                               ELSE Err("ProofVerificationError")])

NextVerify ==
    \/ SeedTranscript
    \/ VerifyDomain
    \/ VerifyWitnessCommitments
    \/ VerifyBetaGamma
    \/ VerifyPermutationCommitment
    \/ VerifyQuotientChallenges
    \/ VerifyQuotientCommitments
    \/ VerifyEvaluationChallenge
    \/ VerifyEvaluations
    \/ VerifyLinearization
    \/ VerifyAggregate
    \/ VerifyShiftedAggregate
    \/ VerifyOpeningCommitments
    \/ VerifyBatchCheck

SpecVerify == InitVerify /\ [][NextVerify]_vars

-----------------------------------------------------------------------------
(* Properties *)

\* the gates of the composer, by 0-based index
Gate(g) == constraints[g + 1]

\* the wires a gate references
GateWires(c) == {c.w_a, c.w_b, c.w_o, c.w_d}

\* the arithmetic gate asserting wire w = constant k, written out
ConstantAssertion(w, k) ==
    [w_a |-> w, w_b |-> 0, w_o |-> 0, w_d |-> 0,
     q_m |-> 0, q_l |-> 1, q_r |-> 0, q_o |-> 0, q_d |-> 0,
     q_c |-> (Modulus - k) % Modulus,
     q_arith |-> 1, q_range |-> 0, q_logic |-> 0,
     q_fixed_group_add |-> 0, q_variable_group_add |-> 0,
     public_input |-> << >>]

\* C1: in every reachable state witness[0] = 0 and witness[1] = 1, and gates 0
\* and 1 are the arithmetic gates asserting wire 0 = 0 and wire 1 = 1.
C1_ZeroOneStable ==
    /\ witness[1] = 0
    /\ witness[2] = 1
    /\ Gate(0) = ConstantAssertion(0, 0)
    /\ Gate(1) = ConstantAssertion(1, 1)

\* C1 witness: two operations have acted, the second a gadget that allocates
C1_Witness ==
    /\ step = 2
    /\ call.op = "append_logic_xor"
    /\ Len(witness) > Len(initialize.witness) + 1

\* C2 as stated: right after initialize() the constraint list holds exactly
\* four gates.
C2_FourGates == call.op = "initialize" => Len(constraints) = 4

\* an arithmetic gate that is one of the two blinding gates of append_dummy_gates
IsDummyGate(c) ==
    /\ c.q_arith = 1
    /\ c.q_m = 1
    /\ c.public_input = None
    /\ \/ c.q_l = 2 % Modulus /\ c.q_r = 3 % Modulus /\ c.q_d = 1
          /\ c.q_c = 4 % Modulus /\ c.q_o = 4 % Modulus
       \/ c.q_l = 1 /\ c.q_r = 1 /\ c.q_d = 0
          /\ c.q_c = 127 % Modulus /\ c.q_o = 1

\* C2 amended: right after initialize() the constraint list holds exactly six
\* gates, at indices 0-5: the two constant assertions for the ZERO and ONE
\* wires plus four blinding arithmetic gates (append_dummy_gates runs twice).
C2_SixGates ==
    call.op = "initialize" =>
        /\ Len(constraints) = 6
        /\ Gate(0) = ConstantAssertion(0, 0)
        /\ Gate(1) = ConstantAssertion(1, 1)
        /\ \A g \in 2 .. 5 : IsDummyGate(Gate(g))
        /\ Len(witness) = 10

\* C2 witness: the state initialize() returns
C2_Witness == call.op = "initialize" /\ step = 0 /\ constraints # << >>

\* C3: the public-input register is exactly the set of gates carrying a public
\* input: every key g is a gate index whose gate has public_input = Some(v)
\* with instance[g] = v, and every gate with a public input has its index as key.
C3_InstanceMatchesGates ==
    /\ \A g \in DOMAIN instance :
          /\ g \in 0 .. (Len(constraints) - 1)
          /\ Gate(g).public_input = << instance[g] >>
    /\ \A g \in 0 .. (Len(constraints) - 1) :
          Gate(g).public_input # << >> => g \in DOMAIN instance

\* C3 witness: two gates carrying public inputs have been appended
C3_Witness == Cardinality(DOMAIN instance) = 2

\* C4: with operations given only issued wire ids, every wire id in columns
\* w_a, w_b, w_o, w_d of every constraint is below |witness|.
C4_WiresAllocated ==
    \A g \in 0 .. (Len(constraints) - 1) :
        \A w \in GateWires(Gate(g)) : w >= 0 /\ w < Len(witness)

\* C4 witness: a gadget has placed wires it allocated itself
C4_Witness ==
    /\ call.op \in {"append_logic_and", "component_range"}
    /\ \E g \in 0 .. (Len(constraints) - 1) :
          Gate(g).w_d >= Len(initialize.witness)

\* the placements of wire w in the permutation builder
Placements(w) == {perm[w + 1][k] : k \in DOMAIN perm[w + 1]}

\* C5 as stated: every wire id allocated in witness has at least one
\* (gate index, column) placement.
C5_EveryWirePlaced == \A w \in 0 .. (Len(witness) - 1) : Placements(w) # {}

\* C5 amended: every wire id allocated in witness is registered in the
\* permutation builder, and its placements are exactly the (gate index,
\* column) positions at which a constraint references it; a wire no gate
\* references yet has none.
C5_PlacementsAreGateColumns ==
    /\ Len(perm) = Len(witness)
    /\ \A w \in 0 .. (Len(witness) - 1) :
          Placements(w) =
              {<< g, "a" >> : g \in {h \in 0 .. (Len(constraints) - 1) : Gate(h).w_a = w}}
              \cup {<< g, "b" >> : g \in {h \in 0 .. (Len(constraints) - 1) : Gate(h).w_b = w}}
              \cup {<< g, "o" >> : g \in {h \in 0 .. (Len(constraints) - 1) : Gate(h).w_o = w}}
              \cup {<< g, "d" >> : g \in {h \in 0 .. (Len(constraints) - 1) : Gate(h).w_d = w}}

\* C5 witness: a wire allocated by append_witness that no gate references
C5_Witness ==
    /\ call.op = "append_witness"
    /\ Placements(call.ret[1]) = {}
    /\ Placements(ZERO) # {}

\* the arithmetic identity of the gate appended last holds
LastGateHolds == ArithmeticHolds(Cs, Len(constraints) - 1)

\* C6: append_public(v) appends exactly one witness with value v and exactly
\* one arithmetic gate (q_l = 1, q_c = 0, w_a = the new wire) whose public
\* input is -v; instance maps that gate's index to -v, and the gate equation
\* q_l * a + q_c + PI = 0 holds for the stored values.
C6_AppendPublic ==
    [][call'.op = "append_public" =>
        LET v == call'.args[1]
            w == Len(witness)
            n == Len(constraints)
            g == constraints'[n + 1]
            minus_v == (Modulus - v) % Modulus
        IN  /\ witness' = Append(witness, v)
            /\ call'.ret = << w >>
            /\ Len(constraints') = n + 1
            /\ SubSeq(constraints', 1, n) = constraints
            /\ g.q_arith = 1 /\ g.q_l = 1 /\ g.q_c = 0 /\ g.w_a = w
            /\ g.q_m = 0 /\ g.q_r = 0 /\ g.q_o = 0 /\ g.q_d = 0
            /\ g.public_input = << minus_v >>
            /\ DOMAIN instance' = (DOMAIN instance) \cup {n}
            /\ instance'[n] = minus_v
            /\ \A k \in DOMAIN instance : instance'[k] = instance[k]
            /\ ((g.q_l * witness'[g.w_a + 1]) + g.q_c + instance'[n]) % Modulus = 0
            /\ LastGateHolds'
    ]_vars

\* C6 witness: append_public has been called with a non-zero value
C6_Witness ==
    /\ call.op = "append_public"
    /\ call.args[1] = 3
    /\ instance[Len(constraints) - 1] = 4

\* the value a constraint s gives the gate polynomial, output term q_o * o included
GatePolynomial(s, a, b, o, d) ==
    LET pi == IF s.public_input = << >> THEN 0 ELSE s.public_input[1]
    IN  ((s.q_m * a * b) + (s.q_l * a) + (s.q_r * b) + (s.q_o * o) + (s.q_d * d)
         + s.q_c + pi) % Modulus

\* C7: append_evaluated_output(s) returns None iff s.q_o = 0, and then leaves
\* witness, constraints and instance unchanged; otherwise it appends exactly
\* one witness o and no gate, with q_m*a*b + q_l*a + q_r*b + q_o*o + q_d*d +
\* q_c + pi = 0 for the current values a, b, d of s.w_a, s.w_b, s.w_d.
C7_EvaluatedOutput ==
    [][call'.op = "append_evaluated_output" =>
        LET s == call'.args[1]
            n == Len(witness)
        IN  /\ (call'.ret = << >>) <=> (s.q_o = 0)
            /\ constraints' = constraints
            /\ instance' = instance
            /\ call'.ret = << >> => witness' = witness
            /\ call'.ret # << >> =>
                  /\ call'.ret = << n >>
                  /\ Len(witness') = n + 1
                  /\ SubSeq(witness', 1, n) = witness
                  /\ GatePolynomial(s, witness[s.w_a + 1], witness[s.w_b + 1],
                                    witness'[n + 1], witness[s.w_d + 1]) = 0
    ]_vars

\* C7 witness: a call with q_o = 0 has returned None
C7_Witness ==
    /\ call.op = "append_evaluated_output"
    /\ call.args[1].q_o = 0
    /\ call.args[1].q_m = 2
    /\ call.ret = << >>

\* C8: gate_add(s) sets q_o = -1 and allocates o := q_l*a + q_r*b + q_4*d + q_c
\* + PI (no q_m*a*b term), and gate_mul(s) allocates o := q_m*a*b + q_4*d +
\* q_c + PI (no q_l*a or q_r*b term), for every constraint s.
C8_GateAddMulOutputs ==
    call.op \in {"gate_add", "gate_mul"} =>
        LET s == call.args[1]
            g == constraints[Len(constraints)]
            a == witness[s.w_a + 1]
            b == witness[s.w_b + 1]
            d == witness[s.w_d + 1]
            o == witness[call.ret[1] + 1]
            pi == IF s.public_input = << >> THEN 0 ELSE s.public_input[1]
        IN  /\ g.q_o = Modulus - 1
            /\ g.w_o = call.ret[1]
            /\ call.op = "gate_add" =>
                  o = ((s.q_l * a) + (s.q_r * b) + (s.q_d * d) + s.q_c + pi) % Modulus
            /\ call.op = "gate_mul" =>
                  o = ((s.q_m * a * b) + (s.q_d * d) + s.q_c + pi) % Modulus

\* bitwise and / xor of two naturals over their k low bits
RECURSIVE BitwiseLow(_, _, _, _)

BitwiseLow(x, y, k, xor) ==
    IF k = 0 \/ (x = 0 /\ y = 0)
       THEN 0
       ELSE (2 * BitwiseLow(x \div 2, y \div 2, k - 1, xor))
            + (IF xor THEN ((x % 2) + (y % 2)) % 2 ELSE (x % 2) * (y % 2))

\* (a op b) & mask(num_bits), as an element of the field
LogicExpected(a, b, num_bits, xor) == BitwiseLow(a, b, num_bits, xor) % Modulus

\* C9: for all witness values a, b and every even num_bits up to the width of
\* the representation, the wire append_logic_and returns holds (a & b) &
\* mask(num_bits) and the wire append_logic_xor returns holds (a ^ b) &
\* mask(num_bits), as field elements; an assert_equal(c, result) gate is
\* satisfied exactly when c holds that value.
C9_LogicResult ==
    /\ call.op \in {"append_logic_and", "append_logic_xor"} =>
          LET a == witness[call.args[1] + 1]
              b == witness[call.args[2] + 1]
              num_bits == call.args[3]
              expected == LogicExpected(a, b, num_bits, call.op = "append_logic_xor")
              result == call.ret[1]
          IN  (num_bits % 2 = 0 /\ num_bits <= FieldBits) =>
                 /\ witness[result + 1] = expected
                 /\ \A c \in 0 .. (Len(witness) - 1) :
                       ArithmeticHolds(assert_equal(Cs, c, result), Len(constraints))
                          <=> (witness[c + 1] = expected)
    /\ call.op = "assert_equal" =>
          (LastGateHolds
              <=> (witness[call.args[1] + 1] = witness[call.args[2] + 1]))

\* C9 witness: a xor over the whole width whose integer value exceeds the
\* modulus, and so is held reduced
C9_Witness ==
    /\ call.op = "append_logic_xor"
    /\ call.args[3] = FieldBits
    /\ witness[call.args[1] + 1] = 3
    /\ witness[call.args[2] + 1] = 5
    /\ witness[call.ret[1] + 1] = 6

\* C10: a call to append_logic_and / append_logic_xor appends exactly
\* (min(num_bits, width) / 2) + 1 gates whatever the values of a and b; with
\* num_bits = 0 it appends only the padding row, allocates no witness and
\* returns the ZERO wire.
C10_LogicGateCount ==
    [][call'.op \in {"append_logic_and", "append_logic_xor"} =>
        LET num_bits == call'.args[3]
            clamped == IF num_bits < FieldBits THEN num_bits ELSE FieldBits
            n == Len(constraints)
        IN  /\ Len(constraints') = n + (clamped \div 2) + 1
            /\ SubSeq(constraints', 1, n) = constraints
            /\ num_bits = 0 =>
                  /\ witness' = witness
                  /\ call'.ret = << 0 >>
                  /\ constraints'[n + 1].q_logic = 0
                  /\ constraints'[n + 1].w_a = 0
                  /\ constraints'[n + 1].w_b = 0
                  /\ constraints'[n + 1].w_d = 0
    ]_vars

\* C10 witness: a call with num_bits = 0 on non-zero operands
C10_Witness ==
    /\ call.op = "append_logic_and"
    /\ call.args[3] = 0
    /\ witness[call.args[1] + 1] = 5
    /\ witness[call.args[2] + 1] = 6
    /\ call.ret = << 0 >>

\* C11 as stated: for the odd value num_bits = 55 the logic gadget is emitted
\* (the call returns) and appends ceil(55 / 2) + 1 = 29 gates.
C11_OddBits29Gates ==
    [][(call'.op \in {"append_logic_and", "append_logic_xor"} /\ call'.args[3] = 55)
        => Len(constraints') = Len(constraints) + 29]_vars

\* C11 amended: for the odd value num_bits = 55 the logic gadget is emitted
\* (the call returns, the circuit goes on to its assert_equal) and appends
\* floor(55 / 2) + 1 = 28 gates: 27 accumulating rows, which allocate 4 * 27
\* witnesses, and the padding row.
C11_OddBits28Gates ==
    [][(call'.op \in {"append_logic_and", "append_logic_xor"} /\ call'.args[3] = 55)
        => /\ Len(constraints') = Len(constraints) + 28
           /\ Len(witness') = Len(witness) + (4 * 27)
           /\ \A g \in Len(constraints) + 1 .. Len(constraints) + 27 :
                 constraints'[g].q_logic # 0
           /\ constraints'[Len(constraints) + 28].q_logic = 0
           /\ call'.ret = << Len(witness') - 1 >>]_vars

\* C11 witness: the circuit of tests/logic.rs with bits = 55 has been emitted
\* to its end, on non-zero operands
C11_Witness ==
    /\ call.op = "assert_equal"
    /\ Len(constraints) = Len(initialize.constraints) + 28 + 1
    /\ witness[Len(initialize.witness) + 1] = 5
    /\ witness[Len(initialize.witness) + 2] = 3

\* the num_bits argument of the last call, if it is a logic or range gadget
GadgetNumBits ==
    IF call.op \in {"append_logic_and", "append_logic_xor"} THEN << call.args[3] >>
    ELSE IF call.op = "component_range" THEN << call.args[2] >>
    ELSE << >>

\* C12 as stated: a call of the logic gadget or of component_range with an odd
\* num_bits panics before anything is appended, so no such call ever returns.
C12_OddBitsPanic == \A n \in {GadgetNumBits[i] : i \in DOMAIN GadgetNumBits} : n % 2 = 0


\* the low k bits of the natural v
RECURSIVE LowBits(_, _)

LowBits(v, k) ==
    IF k = 0 \/ v = 0 THEN 0 ELSE (v % 2) + (2 * LowBits(v \div 2, k - 1))

\* the rows component_range(w, num_bits) appends after gate g0: ceil(num_bits / 8)
\* rows with q_range = 1 and nothing else, then one row with every selector 0
RangeRowsShape(cons, g0, num_bits) ==
    LET rows == (num_bits + 7) \div 8
    IN  /\ \A g \in (g0 + 1) .. (g0 + rows) :
              [cons[g] EXCEPT !.w_a = 0, !.w_b = 0, !.w_o = 0, !.w_d = 0]
                  = [ConstraintDefault EXCEPT !.q_range = 1]
        /\ [cons[g0 + rows + 1] EXCEPT !.w_d = 0] = ConstraintDefault

\* C13 as stated: every call component_range(w, num_bits) appends
\* ceil(num_bits / 8) rows with q_range = 1, one final row with q_range = 0,
\* then the assert_equal gate.
C13_RangeShapeWithAssert ==
    [][call'.op = "component_range" =>
        LET num_bits == call'.args[2]
            g0 == Len(constraints)
            rows == (num_bits + 7) \div 8
        IN  /\ Len(constraints') = g0 + rows + 2
            /\ RangeRowsShape(constraints', g0, num_bits)
    ]_vars

\* C13 amended: component_range(w, num_bits) appends ceil(num_bits / 8) rows
\* with q_range = 1, one final row with q_range = 0 and, when num_bits > 0, the
\* assert_equal gate (with num_bits = 0 no accumulator is allocated and no
\* assert_equal gate is appended); it allocates ceil(num_bits / 2) accumulator
\* wires; and on a composer differing only in the value of w the same call
\* yields the same constraints, public inputs and placements and as many
\* witnesses.
C13_RangeShapeByBits ==
    [][call'.op = "component_range" =>
        LET w == call'.args[1]
            num_bits == call'.args[2]
            g0 == Len(constraints)
            rows == (num_bits + 7) \div 8
        IN  /\ Len(constraints') = g0 + rows + 1 + (IF num_bits > 0 THEN 1 ELSE 0)
            /\ SubSeq(constraints', 1, g0) = constraints
            /\ RangeRowsShape(constraints', g0, num_bits)
            /\ Len(witness') = Len(witness) + ((num_bits + 1) \div 2)
            /\ num_bits > 0 =>
                  constraints'[g0 + rows + 2]
                      = [ConstraintDefault EXCEPT
                            !.q_arith = 1, !.q_l = 1, !.q_r = Modulus - 1,
                            !.w_a = Len(witness') - 1, !.w_b = w]
            /\ \A v \in F :
                  LET other == component_range([Cs EXCEPT !.witness[w + 1] = v],
                                               w, num_bits)
                  IN  /\ other.constraints = constraints'
                      /\ other.instance = instance'
                      /\ other.perm = perm'
                      /\ Len(other.witness) = Len(witness')
    ]_vars

\* C13 witness: the gadget has run over more than one row on a non-zero value
C13_Witness ==
    /\ call.op = "component_range"
    /\ call.args[2] = 20
    /\ witness[call.args[1] + 1] = 5
    /\ Len(constraints) = Len(initialize.constraints) + 3 + 1 + 1

\* C14: for every even num_bits with 0 < num_bits <= 256, the last accumulator
\* wire component_range(w, num_bits) allocates holds the low num_bits bits of
\* w, is the d wire of the final zeroed row, and is tied to w by the
\* assert_equal gate appended last; that gate is satisfied iff w < 2^num_bits.
C14_RangeLastAccumulator ==
    [][(/\ call'.op = "component_range"
        /\ call'.args[2] % 2 = 0
        /\ call'.args[2] > 0
        /\ call'.args[2] <= FieldBits) =>
        LET w == call'.args[1]
            num_bits == call'.args[2]
            v == witness[w + 1]
            last == Len(witness') - 1
            n == Len(constraints')
        IN  /\ last >= Len(witness)
            /\ witness'[last + 1] = LowBits(v, num_bits) % Modulus
            /\ constraints'[n - 1] = [ConstraintDefault EXCEPT !.w_d = last]
            /\ constraints'[n] = [ConstraintDefault EXCEPT
                                     !.q_arith = 1, !.q_l = 1, !.q_r = Modulus - 1,
                                     !.w_a = last, !.w_b = w]
            /\ LastGateHolds' <=> (ShiftRight(v, num_bits) = 0)
    ]_vars

\* C14 witness: a value of three bits has been range-checked over two bits
C14_Witness ==
    /\ call.op = "component_range"
    /\ call.args[2] = 2
    /\ witness[call.args[1] + 1] = 6
    /\ witness[Len(witness)] = 2
    /\ ~LastGateHolds


\* the constant (x_beta, y_beta) a fixed-base round gate carries
GateBeta(cons, g) == << cons[g].q_l, cons[g].q_r >>

\* C15: every successful component_mul_generator call appends 261 gates: three
\* constant assertions binding the first accumulator wires to acc_x = 0,
\* acc_y = 1, acc_scalar = 0; 256 gates with q_fixed_group_add = 1 on the wires
\* (acc_x, acc_y, xy_alpha, acc_scalar) of their round with q_l = x_beta,
\* q_r = y_beta, q_c = x_beta * y_beta for the power-of-two multiples of the
\* generator, the highest first; one row with no selector but q_arith on the
\* terminal accumulator wires; one assert_equal gate; and the same call on a
\* composer holding another scalar appends the same gates.
C15_MulGeneratorGates ==
    [][(call'.op = "component_mul_generator" /\ call'.ret[1] = "Ok") =>
        LET jubjub == call'.args[1]
            generator == call'.args[2]
            g0 == Len(constraints)
            w0 == Len(witness)
            other == component_mul_generator(
                         [Cs EXCEPT !.witness[jubjub + 1] = 0], jubjub, generator,
                         compute_windowed_naf(0, 2))
        IN  /\ Len(constraints') = g0 + 261
            /\ SubSeq(constraints', 1, g0) = constraints
            /\ Len(witness') = w0 + (4 * 256) + 3
            /\ constraints'[g0 + 1] = ConstantAssertion(w0, 0)
            /\ constraints'[g0 + 2] = ConstantAssertion(w0 + 1, 1)
            /\ constraints'[g0 + 3] = ConstantAssertion(w0 + 2, 0)
            /\ \A i \in 0 .. 255 :
                  LET c == constraints'[g0 + 4 + i]
                  IN  /\ c = [ConstraintDefault EXCEPT
                                 !.q_fixed_group_add = 1,
                                 !.q_l = c.q_l, !.q_r = c.q_r,
                                 !.q_c = (c.q_l * c.q_r) % Modulus,
                                 !.w_a = w0 + (4 * i), !.w_b = w0 + (4 * i) + 1,
                                 !.w_o = w0 + (4 * i) + 3, !.w_d = w0 + (4 * i) + 2]
                      /\ GateBeta(constraints', g0 + 4 + i) =
                            IF i = 255
                               THEN generator
                               ELSE PointDouble(GateBeta(constraints', g0 + 5 + i))
            /\ constraints'[g0 + 260] =
                  [ConstraintDefault EXCEPT
                      !.q_arith = 1, !.w_a = w0 + 1024, !.w_b = w0 + 1025,
                      !.w_d = w0 + 1026]
            /\ constraints'[g0 + 261] =
                  [ConstraintDefault EXCEPT
                      !.q_arith = 1, !.q_l = 1, !.q_r = Modulus - 1,
                      !.w_a = w0 + 1026, !.w_b = jubjub]
            /\ other.cs.constraints = constraints'
            /\ other.cs.perm = perm'
            /\ other.cs.instance = instance'
    ]_vars

\* C15 witness: the gadget has run on a non-zero scalar and a generator of
\* full order
C15_Witness ==
    /\ call.op = "component_mul_generator"
    /\ call.ret[1] = "Ok"
    /\ call.args[2] = << 3, 2 >>
    /\ witness[call.args[1] + 1] = 5
    /\ Len(constraints) = Len(initialize.constraints) + 261

\* k P by repeated addition
RECURSIVE ScalarMul(_, _)

ScalarMul(k, P) == IF k = 0 THEN << 0, 1 >> ELSE PointAdd(ScalarMul(k - 1, P), P)

\* entry P for a digit entry of -1, 0, 1
DigitTimes(entry, P) ==
    IF entry = 0 THEN << 0, 1 >>
    ELSE IF entry = 1 THEN P
    ELSE << (Modulus - P[1]) % Modulus, P[2] >>

\* C16: when every digit of the decomposition of s is -1, 0 or 1, the call
\* succeeds and its accumulators start from 0 and the identity and satisfy
\* acc_scalar(i+1) = 2 acc_scalar(i) + entry_i and acc_point(i+1) =
\* acc_point(i) + entry_i (2^(255-i) generator), most significant digit first;
\* the final scalar accumulator equals s, the closing assert_equal gate is
\* satisfied, and the point returned is s generator.
C16_MulGeneratorAccumulators ==
    [][(/\ call'.op = "component_mul_generator"
        /\ \A k \in 1 .. 256 : call'.args[3][k] \in {-1, 0, 1}) =>
        LET jubjub == call'.args[1]
            generator == call'.args[2]
            entries == call'.args[3]
            s == witness[jubjub + 1]
            g0 == Len(constraints)
            w0 == Len(witness)
            acc_scalar(i) == witness'[w0 + (4 * i) + 3]
            acc_point(i) == << witness'[w0 + (4 * i) + 1], witness'[w0 + (4 * i) + 2] >>
        IN  /\ call'.ret[1] = "Ok"
            /\ acc_scalar(0) = 0
            /\ acc_point(0) = << 0, 1 >>
            /\ GateBeta(constraints', g0 + 4 + 255) = generator
            /\ \A i \in 0 .. 255 :
                  /\ i < 255 => GateBeta(constraints', g0 + 4 + i)
                                   = PointDouble(GateBeta(constraints', g0 + 5 + i))
                  /\ acc_scalar(i + 1) =
                        ((2 * acc_scalar(i)) + entries[256 - i] + Modulus) % Modulus
                  /\ acc_point(i + 1) =
                        PointAdd(acc_point(i),
                                 DigitTimes(entries[256 - i],
                                            GateBeta(constraints', g0 + 4 + i)))
            /\ acc_scalar(256) = s
            /\ LastGateHolds'
            /\ << witness'[call'.ret[2].x + 1], witness'[call'.ret[2].y + 1] >>
                  = ScalarMul(s, generator)
            /\ call'.ret[2] = [x |-> w0 + 1024, y |-> w0 + 1025]
    ]_vars

\* C16 witness: a scalar with a negative digit has been multiplied
C16_Witness ==
    /\ call.op = "component_mul_generator"
    /\ call.ret[1] = "Ok"
    /\ witness[call.args[1] + 1] = 3
    /\ call.args[3][1] = -1
    /\ call.args[2] = << 3, 2 >>
    /\ << witness[call.ret[2].x + 1], witness[call.ret[2].y + 1] >> = << 1, 0 >>

\* C17: when the decomposition of the scalar has a digit outside -1, 0, 1,
\* component_mul_generator returns Err(UnsupportedWNAF2k) and leaves the
\* witnesses, constraints, public inputs and placements as they were.
C17_UnsupportedDigit ==
    [][(/\ call'.op = "component_mul_generator"
        /\ \E k \in 1 .. 256 : call'.args[3][k] \notin {-1, 0, 1}) =>
        /\ call'.ret = << "Err", "UnsupportedWNAF2k" >>
        /\ witness' = witness
        /\ constraints' = constraints
        /\ instance' = instance
        /\ perm' = perm
        /\ issued' = issued
    ]_vars

\* C17 witness: a call on a decomposition with the digit 3 has returned
C17_Witness ==
    /\ call.op = "component_mul_generator"
    /\ call.args[3][1] = 3
    /\ call.ret[1] = "Err"
    /\ Len(witness) = Len(initialize.witness) + 1


\* the sum of 2^(i - 1) * vals[i] over the bits vals[1 .. top], as a natural
RECURSIVE BitSum(_, _, _)

BitSum(vals, i, top) ==
    IF i > top THEN 0 ELSE vals[i] + (2 * BitSum(vals, i + 1, top))

\* the sum over the whole sequence: the bits above the highest one set add 0
WeightedSum(vals) ==
    LET set == {i \in DOMAIN vals : vals[i] # 0}
        top == IF set = {} THEN 0 ELSE CHOOSE i \in set : \A j \in set : j <= i
    IN  BitSum(vals, 1, top)

C18_WitnessFull ==
    /\ call.op = "component_decomposition"
    /\ call.args[2] = FieldBits
    /\ witness[call.args[1] + 1] = 5
    /\ LastGateHolds


\* z * a + (1 - z) * b in the field
SelectValue(z, a, b) == ((z * a) + (((Modulus + 1 - z) % Modulus) * b)) % Modulus

\* C19: for all field values a, b and every bit wire holding z in {0, 1}, the
\* wire returned by component_select(z, a, b) holds z * a + (1 - z) * b in
\* the field, that is a when z = 1 and b when z = 0; component_select_point
\* applies this to the x and to the y coordinates independently.
C19_Select ==
    [][/\ (call'.op = "component_select" /\ witness[call'.args[1] + 1] \in {0, 1}) =>
            LET z == witness[call'.args[1] + 1]
                a == witness[call'.args[2] + 1]
                b == witness[call'.args[3] + 1]
                out == witness'[call'.ret[1] + 1]
            IN  /\ call'.ret[1] >= Len(witness)
                /\ out = SelectValue(z, a, b)
                /\ out = IF z = 1 THEN a ELSE b
       /\ (call'.op = "component_select_point" /\ witness[call'.args[1] + 1] \in {0, 1}) =>
            LET z == witness[call'.args[1] + 1]
                a == call'.args[2]
                b == call'.args[3]
                p == call'.ret[1]
            IN  /\ witness'[p.x + 1] = SelectValue(z, witness[a.x + 1], witness[b.x + 1])
                /\ witness'[p.y + 1] = SelectValue(z, witness[a.y + 1], witness[b.y + 1])
                /\ witness'[p.x + 1] = IF z = 1 THEN witness[a.x + 1] ELSE witness[b.x + 1]
                /\ witness'[p.y + 1] = IF z = 1 THEN witness[a.y + 1] ELSE witness[b.y + 1]
                /\ p.x # p.y
    ]_vars

\* C19 witness: with the bit 1 the selection of 5 and 3 returned a wire
\* holding 5
C19_Witness ==
    /\ call.op = "component_select"
    /\ witness[call.args[1] + 1] = 1
    /\ witness[call.args[2] + 1] = 5
    /\ witness[call.args[3] + 1] = 3
    /\ witness[call.ret[1] + 1] = 5

\* a point selection with the bit 0 returned the coordinates of b, which
\* differ from those of a
C19_WitnessPoint ==
    /\ call.op = "component_select_point"
    /\ witness[call.args[1] + 1] = 0
    /\ witness[call.args[2].x + 1] # witness[call.args[3].x + 1]
    /\ witness[call.args[2].y + 1] # witness[call.args[3].y + 1]
    /\ witness[call.ret[1].x + 1] = witness[call.args[3].x + 1]
    /\ witness[call.ret[1].y + 1] = witness[call.args[3].y + 1]

\* C20 as stated: each call to component_select emits exactly three gates
C20_SelectThreeGates ==
    [][(call'.op = "component_select") =>
        Len(constraints') = Len(constraints) + 3]_vars

\* C20: each call to component_select emits exactly four gates (gate_mul,
\* gate_add, gate_mul, gate_add) and allocates exactly four witnesses, the
\* same gates whatever the values of the bit, a and b are: every call, on
\* any values, emits the gates of the same call on the values 0 and -1.
C20_SelectFourGates ==
    [][(call'.op = "component_select") =>
        LET bit == call'.args[1]
            a == call'.args[2]
            b == call'.args[3]
            n == Len(constraints)
            w == Len(witness)
        IN  /\ Len(constraints') = n + 4
            /\ Len(witness') = w + 4
            /\ call'.ret[1] = w + 3
            /\ \A g \in 1 .. n : constraints'[g] = constraints[g]
            /\ constraints'[n + 1] = [ConstraintDefault EXCEPT
                  !.q_arith = 1, !.q_m = 1, !.q_o = Modulus - 1,
                  !.w_a = bit, !.w_b = a, !.w_o = w]
            /\ constraints'[n + 2] = [ConstraintDefault EXCEPT
                  !.q_arith = 1, !.q_l = Modulus - 1, !.q_c = 1, !.q_o = Modulus - 1,
                  !.w_a = bit, !.w_o = w + 1]
            /\ constraints'[n + 3] = [ConstraintDefault EXCEPT
                  !.q_arith = 1, !.q_m = 1, !.q_o = Modulus - 1,
                  !.w_a = w + 1, !.w_b = b, !.w_o = w + 2]
            /\ constraints'[n + 4] = [ConstraintDefault EXCEPT
                  !.q_arith = 1, !.q_l = 1, !.q_r = 1, !.q_o = Modulus - 1,
                  !.w_a = w + 2, !.w_b = w, !.w_o = w + 3]
            /\ \A vz, va, vb \in {0, Modulus - 1} :
                  LET other == component_select(
                                   [Cs EXCEPT !.witness[bit + 1] = vz,
                                              !.witness[a + 1] = va,
                                              !.witness[b + 1] = vb],
                                   bit, a, b)
                  IN  /\ other.cs.constraints = constraints'
                      /\ other.cs.instance = instance'
                      /\ other.ret = call'.ret[1]
    ]_vars

\* C20 witness: a selection has been made on the bit 1 and four gates follow
\* the gates of initialize
C20_Witness ==
    /\ call.op = "component_select"
    /\ witness[call.args[1] + 1] = 1
    /\ Len(constraints) = Len(initialize.constraints) + 4
    /\ constraints[Len(constraints)].q_r = 1


\* the values two wires of a point hold
PointValue(wit, p) == << wit[p.x + 1], wit[p.y + 1] >>

C22_AddPoint ==
    [][(call'.op = "component_add_point") =>
        LET a == call'.args[1]
            b == call'.args[2]
            w0 == Len(witness)
            g0 == Len(constraints)
            row1 == constraints'[g0 + 1]
            row2 == constraints'[g0 + 2]
            pa == PointValue(witness, a)
            pb == PointValue(witness, b)
        IN  /\ Len(constraints') = g0 + 2
            /\ Len(witness') = w0 + 3
            /\ SubSeq(witness', 1, w0) = witness
            /\ SubSeq(constraints', 1, g0) = constraints
            /\ row1 = [ConstraintDefault EXCEPT !.q_variable_group_add = 1,
                          !.w_a = a.x, !.w_b = a.y, !.w_o = b.x, !.w_d = b.y]
            /\ row2 = [ConstraintDefault EXCEPT !.w_a = call'.ret[1].x,
                          !.w_b = call'.ret[1].y, !.w_d = w0]
            /\ row2.w_o = ZERO
            /\ {call'.ret[1].x, call'.ret[1].y} = {w0 + 1, w0 + 2}
            /\ PointValue(witness', call'.ret[1]) = PointAdd(pa, pb)
            /\ witness'[row2.w_d + 1] = Mul(pa[1], pb[2])
    ]_vars

\* C22 witness: two different points, neither the identity, have been added
\* and a.x * b.y differs from a.y * b.x
C22_Witness ==
    /\ call.op = "component_add_point"
    /\ PointValue(witness, call.args[1]) # PointValue(witness, call.args[2])
    /\ << 0, 1 >> \notin {PointValue(witness, call.args[1]),
                          PointValue(witness, call.args[2])}
    /\ witness[Len(witness) - 2]
          = Mul(witness[call.args[1].x + 1], witness[call.args[2].y + 1])
    /\ witness[Len(witness) - 2]
          # Mul(witness[call.args[1].y + 1], witness[call.args[2].x + 1])
    /\ PointValue(witness, call.ret[1]) \in CurvePoints


\* an entry of the transcript
Event(op, label, value) == [op |-> op, label |-> label, value |-> value]

\* the operations seed_transcript makes before Proof::verify starts
SeedLen == Len(KeyFields)

\* the operations of Proof::verify up to r_eval, with the values the proof
\* and the challenges drawn so far give them
VerifyOrder ==
    LET e == input.proof
    IN  << Event("append_commitment", "a_w", e.a_comm),
           Event("append_commitment", "b_w", e.b_comm),
           Event("append_commitment", "c_w", e.c_comm),
           Event("append_commitment", "d_w", e.d_comm),
           Event("challenge_scalar", "beta", local.beta),
           Event("append_scalar", "beta", local.beta),
           Event("challenge_scalar", "gamma", local.gamma),
           Event("append_commitment", "z", e.z_comm),
           Event("challenge_scalar", "alpha", local.alpha),
           Event("challenge_scalar", "range separation challenge",
                 local.range_sep_challenge),
           Event("challenge_scalar", "logic separation challenge",
                 local.logic_sep_challenge),
           Event("challenge_scalar", "fixed base separation challenge",
                 local.fixed_base_sep_challenge),
           Event("challenge_scalar", "variable base separation challenge",
                 local.var_base_sep_challenge),
           Event("append_commitment", "t_low", e.t_low_comm),
           Event("append_commitment", "t_mid", e.t_mid_comm),
           Event("append_commitment", "t_high", e.t_high_comm),
           Event("append_commitment", "t_4", e.t_4_comm),
           Event("challenge_scalar", "z_challenge", local.z_challenge),
           Event("append_scalar", "a_eval", e.a_eval),
           Event("append_scalar", "b_eval", e.b_eval),
           Event("append_scalar", "c_eval", e.c_eval),
           Event("append_scalar", "d_eval", e.d_eval),
           Event("append_scalar", "a_next_eval", e.a_next_eval),
           Event("append_scalar", "b_next_eval", e.b_next_eval),
           Event("append_scalar", "d_next_eval", e.d_next_eval),
           Event("append_scalar", "s_sigma_1_eval", e.s_sigma_1_eval),
           Event("append_scalar", "s_sigma_2_eval", e.s_sigma_2_eval),
           Event("append_scalar", "s_sigma_3_eval", e.s_sigma_3_eval),
           Event("append_scalar", "q_arith_eval", e.q_arith_eval),
           Event("append_scalar", "q_c_eval", e.q_c_eval),
           Event("append_scalar", "q_l_eval", e.q_l_eval),
           Event("append_scalar", "q_r_eval", e.q_r_eval),
           Event("append_scalar", "perm_eval", e.perm_eval),
           Event("append_scalar", "t_eval", local.t_eval),
           Event("append_scalar", "r_eval", e.r_poly_eval) >>

\* the positions of the transcript at which the label was appended
AppendedAt(label) ==
    {i \in 1 .. Len(transcript) :
        transcript[i].op # "challenge_scalar" /\ transcript[i].label = label}

\* the positions of the transcript at which the challenge was drawn
DrawnAt(label) ==
    {i \in 1 .. Len(transcript) :
        transcript[i].op = "challenge_scalar" /\ transcript[i].label = label}

\* every drawing of the challenge comes after an append of each label
DrawnAfter(challenge, labels) ==
    \A i \in DrawnAt(challenge) :
        \A l \in labels : \E j \in AppendedAt(l) : j < i

\* C23: Proof::verify performs its transcript operations in one fixed
\* order: append a_w, b_w, c_w, d_w; challenge beta; append beta; challenge
\* gamma; append z; challenge alpha, then the range, logic, fixed-base and
\* variable-base separation challenges; append t_low, t_mid, t_high, t_4;
\* challenge z_challenge; append the 15 proof evaluations, then t_eval and
\* r_eval. At every moment, what verify has done on the transcript is a
\* prefix of that order with the values of the proof, and it is the whole of
\* it once the evaluations are appended; hence every challenge is drawn
\* after the commitments it binds.
C23_TranscriptOrder ==
    (pc \notin {"idle", "seed", "verify"} /\ local.domain # None) =>
        LET done == Len(transcript) - SeedLen
            upto == IF done < Len(VerifyOrder) THEN done ELSE Len(VerifyOrder)
        IN  /\ done >= 0
            /\ SubSeq(transcript, SeedLen + 1, SeedLen + upto)
                  = SubSeq(VerifyOrder, 1, upto)
            /\ (pc \in {"linearization", "aggregate", "shifted_aggregate",
                        "opening_commitments", "batch_check"}
                \/ (pc = "done" /\ local.result[1] # "Panic"))
                  => upto = Len(VerifyOrder)
            /\ DrawnAfter("beta", {"a_w", "b_w", "c_w", "d_w"})
            /\ DrawnAfter("gamma", {"a_w", "b_w", "c_w", "d_w", "beta"})
            /\ DrawnAfter("alpha", {"a_w", "b_w", "c_w", "d_w", "beta", "z"})
            /\ DrawnAfter("variable base separation challenge", {"z"})
            /\ DrawnAfter("z_challenge",
                          {"a_w", "b_w", "c_w", "d_w", "beta", "z", "t_low",
                           "t_mid", "t_high", "t_4"})
            /\ \A l \in {"a_eval", "perm_eval", "t_eval", "r_eval"} :
                   \A i \in AppendedAt(l) : \E j \in DrawnAt("z_challenge") : j < i

\* C23 witness: the evaluations are appended, after challenges that differ
C23_Witness ==
    /\ pc = "linearization"
    /\ Len(transcript) = SeedLen + Len(VerifyOrder)
    /\ local.beta # local.gamma
    /\ local.alpha # local.range_sep_challenge
    /\ transcript[Len(transcript)] = Event("append_scalar", "r_eval",
                                           input.proof.r_poly_eval)


\* C24: for every verifier key, proof, public-input vector and derived
\* challenges, Proof::verify ends with Ok(()) or
\* Err(ProofVerificationError): it does not panic and returns no other
\* kind of error.
C24_OkOrVerificationError ==
    (pc = "done") => local.result \in {Ok(<< >>), Err("ProofVerificationError")}

\* C25: aggregate proof A, with the opening witness w_z, holds the nine
\* pairs (t_eval, T), (r_eval, R), (a_eval, a), (b_eval, b), (c_eval, c),
\* (d_eval, d), (sigma_1, s_sigma_1), (sigma_2, s_sigma_2),
\* (sigma_3, s_sigma_3) in that order; aggregate proof B, with the opening
\* witness w_zw, holds (perm_eval, z), (a_next, a), (b_next, b),
\* (d_next, d). After the evaluations the transcript gives the challenge
\* that flattens A, then the one that flattens B, then absorbs w_z and
\* w_z_w; batch_check, on the points (z, z omega) and the two flattened
\* proofs, comes after all of them and nothing follows it.
C25_AggregateProofs ==
    LET e == input.proof
        vk == input.vk
        base == SeedLen + Len(VerifyOrder)
        A == [witness_commitment |-> e.w_z_chall_comm,
              parts |-> << << local.t_eval, local.t_comm >>,
                           << e.r_poly_eval, local.r_comm >>,
                           << e.a_eval, e.a_comm >>,
                           << e.b_eval, e.b_comm >>,
                           << e.c_eval, e.c_comm >>,
                           << e.d_eval, e.d_comm >>,
                           << e.s_sigma_1_eval, vk.s_sigma_1 >>,
                           << e.s_sigma_2_eval, vk.s_sigma_2 >>,
                           << e.s_sigma_3_eval, vk.s_sigma_3 >> >>]
        B == [witness_commitment |-> e.w_z_chall_w_comm,
              parts |-> << << e.perm_eval, e.z_comm >>,
                           << e.a_next_eval, e.a_comm >>,
                           << e.b_next_eval, e.b_comm >>,
                           << e.d_next_eval, e.d_comm >> >>]
        Flat(ap, v) ==
            [eval |-> SumSeq([i \in 1 .. Len(ap.parts) |->
                                 Mul(pow(v, i - 1), ap.parts[i][1])],
                             Len(ap.parts)),
             comm |-> SumSeq([i \in 1 .. Len(ap.parts) |->
                                 Mul(pow(v, i - 1), ap.parts[i][2])],
                             Len(ap.parts)),
             witness_commitment |-> ap.witness_commitment]
    IN  (pc \notin {"idle", "seed", "verify"} /\ local.domain # None) =>
        /\ (local.aggregate_proof # None) <=> (Len(transcript) > base)
        /\ (local.aggregate_proof # None) =>
              /\ local.aggregate_proof = A
              /\ transcript[base + 1].op = "challenge_scalar"
              /\ transcript[base + 1].label = "aggregate_challenge"
              /\ local.flattened_proof_a = Flat(A, transcript[base + 1].value)
        /\ (local.shifted_aggregate_proof # None) <=> (Len(transcript) > base + 1)
        /\ (local.shifted_aggregate_proof # None) =>
              /\ local.aggregate_proof # None
              /\ local.shifted_aggregate_proof = B
              /\ transcript[base + 2].op = "challenge_scalar"
              /\ transcript[base + 2].label = "aggregate_challenge"
              /\ local.flattened_proof_b = Flat(B, transcript[base + 2].value)
        /\ Len(transcript) \in (0 .. (base + 2)) \cup {base + 4}
        /\ (Len(transcript) = base + 4) =>
              /\ transcript[base + 3]
                    = Event("append_commitment", "w_z", e.w_z_chall_comm)
              /\ transcript[base + 4]
                    = Event("append_commitment", "w_z_w", e.w_z_chall_w_comm)
        /\ (local.batch_check # None) =>
              /\ pc = "done"
              /\ Len(transcript) = base + 4
              /\ local.batch_check.points
                    = << local.z_challenge,
                         Mul(local.z_challenge, local.domain.group_gen) >>
              /\ local.batch_check.proofs
                    = << local.flattened_proof_a, local.flattened_proof_b >>
              /\ local.result \in {Ok(<< >>), Err("ProofVerificationError")}
        /\ (pc = "done" /\ local.result[1] # "Panic") => local.batch_check # None

\* C25 witness: batch_check has run on a domain of two points, after two
\* different flattening challenges
C25_Witness ==
    /\ pc = "done"
    /\ local.batch_check # None
    /\ local.domain.size = 2
    /\ local.batch_check.points[2] # local.batch_check.points[1]
    /\ transcript[Len(transcript) - 3].value # transcript[Len(transcript) - 2].value
    /\ local.result = Ok(<< >>)

\* the keys that differ from vk in s_sigma_4 only
DifferInSigmaFour(vk) ==
    {k \in Keys : k # vk /\ [k EXCEPT !.s_sigma_4 = vk.s_sigma_4] = vk}

\* C26: the commitment the verification key appends to the transcript under
\* the label "s_sigma_4" is its fourth permutation commitment s_sigma_4, so
\* that two keys that differ in s_sigma_4 only give different transcripts.
C26_SigmaFourSeeded ==
    (pc \notin {"idle", "seed"}) =>
        /\ transcript[SeedLen - 1]
              = Event("append_commitment", "s_sigma_4", input.vk.s_sigma_4)
        /\ \A k \in DifferInSigmaFour(input.vk) :
               seed_transcript(k, << >>) # SubSeq(transcript, 1, SeedLen)

\* the domain of the n-th roots of unity
DomainElements(domain) == {pow(domain.group_gen, i) : i \in 0 .. (domain.size - 1)}

\* the i-th (from 0) Lagrange polynomial of the domain at the point
Lagrange(domain, i, point) ==
    LET Others == (0 .. (domain.size - 1)) \ {i}
        w(j) == pow(domain.group_gen, j)
        Prod[S \in SUBSET Others] ==
            IF S = {} THEN 1
            ELSE LET j == CHOOSE x \in S : TRUE
                 IN  Mul(Prod[S \ {j}],
                         Div(Sub(point, w(j)), Sub(w(i), w(j))))
    IN  Prod[Others]

\* sum over all the entries, zero or not
LagrangeInterpolation(domain, v, point) ==
    SumSeq([i \in 1 .. Len(v) |-> Mul(v[i], Lagrange(domain, i - 1, point))],
           Len(v))

\* ((point^n - 1) / n) times the sum of v_i / (omega^-i point - 1) over the
\* entries the predicate keeps
BarycentricSum(domain, v, point, Keep(_)) ==
    Mul(Div(Sub(pow(point, domain.size), 1), FromInt(domain.size)),
        SumSeq([i \in 1 .. Len(v) |->
                   IF Keep(v[i])
                   THEN Div(v[i], Sub(Mul(pow(Invert(domain.group_gen)[1], i - 1),
                                          point), 1))
                   ELSE 0],
               Len(v)))

\* all the vectors of at most n field elements
VectorsUpTo(n) == UNION {[1 .. k -> F] : k \in 0 .. n}

\* C27: for every public-input vector v of at most n entries and every
\* point outside the domain of size n, compute_barycentric_eval gives
\* ((point^n - 1) / n) times the sum over the non-zero entries of
\* v_i / (omega^-i point - 1), which is the Lagrange interpolation
\* sum v_i L_i(point), and is the same sum taken over all the entries.
\* Checked on the evaluation verify makes, and at its point and domain on
\* every vector of at most n entries.
C27_BarycentricEval ==
    [][(pc = "evaluation_challenge" /\ pc' = "evaluations"
        /\ local'.z_challenge \notin DomainElements(local.domain)) =>
        LET domain == local.domain
            point == local'.z_challenge
        IN  /\ Len(input.pub_inputs) <= domain.size =>
                  /\ local'.pi_eval
                        = BarycentricSum(domain, input.pub_inputs, point,
                                         LAMBDA x : x # 0)
                  /\ local'.pi_eval
                        = LagrangeInterpolation(domain, input.pub_inputs, point)
            /\ \A v \in VectorsUpTo(domain.size) :
                  /\ compute_barycentric_eval(v, point, domain)
                        = BarycentricSum(domain, v, point, LAMBDA x : x # 0)
                  /\ compute_barycentric_eval(v, point, domain)
                        = BarycentricSum(domain, v, point, LAMBDA x : TRUE)
                  /\ compute_barycentric_eval(v, point, domain)
                        = LagrangeInterpolation(domain, v, point)
    ]_vars

\* C27 witness: the public inputs (0, 5) have been evaluated on the domain
\* of two points at a point outside it, and the evaluation is not zero
C27_Witness ==
    /\ pc = "evaluations"
    /\ input.pub_inputs = << 0, 5 >>
    /\ local.domain.size = 2
    /\ local.z_challenge \notin DomainElements(local.domain)
    /\ local.pi_eval = LagrangeInterpolation(local.domain, input.pub_inputs,
                                             local.z_challenge)
    /\ local.pi_eval # 0


\* the i-th quad (from the most significant) of the num_bits low bits of w
TopQuad(w, num_bits, i) == ShiftRight(w, num_bits - (2 * (i + 1))) % 4

\* C28: the num_quads + 1 gates of one call of the logic gadget are
\* consecutive rows. Row 0 has its columns a, b, d on the ZERO wire and its
\* column o on a wire holding the product of the first quads; row i has
\* them on wires holding the accumulators A_i, B_i, D_i, the base-4
\* reconstructions of the top i quads of a, of b and of a op b, and its
\* column o on the product of the next quads; the last row holds
\* (A_n, B_n, ZERO, D_n) with q_logic = 0, while the rows before it share
\* one non-zero q_logic; and from each row to the next, each of the columns
\* a, b, d holds four times its value plus a number in {0, 1, 2, 3}.
C28_LogicRows ==
    [][call'.op \in {"append_logic_and", "append_logic_xor"} =>
        LET xor == call'.op = "append_logic_xor"
            num_bits == IF call'.args[3] < FieldBits THEN call'.args[3] ELSE FieldBits
            n == num_bits \div 2
            a == LowBits(witness[call'.args[1] + 1], num_bits)
            b == LowBits(witness[call'.args[2] + 1], num_bits)
            d == BitwiseLow(a, b, num_bits, xor)
            w0 == Len(witness)
            g0 == Len(constraints)
            row(i) == constraints'[g0 + i + 1]
            val(w) == witness'[w + 1]
            Acc(w, i) == ShiftRight(w, num_bits - (2 * i)) % Modulus
            q == IF xor THEN 1 ELSE Neg(1)
        IN  /\ Len(constraints') = g0 + n + 1
            /\ Len(witness') = w0 + (4 * n)
            /\ \A i \in 0 .. n :
                  /\ row(i) = [ConstraintDefault EXCEPT
                                  !.q_logic = IF i < n THEN q ELSE 0,
                                  !.w_a = IF i = 0 THEN ZERO ELSE w0 + (4 * (i - 1)),
                                  !.w_b = IF i = 0 THEN ZERO ELSE w0 + (4 * (i - 1)) + 1,
                                  !.w_o = IF i = n THEN ZERO ELSE w0 + (4 * i) + 2,
                                  !.w_d = IF i = 0 THEN ZERO ELSE w0 + (4 * (i - 1)) + 3]
                  /\ val(row(i).w_a) = Acc(a, i)
                  /\ val(row(i).w_b) = Acc(b, i)
                  /\ val(row(i).w_d) = Acc(d, i)
                  /\ i < n => val(row(i).w_o)
                                 = (TopQuad(a, num_bits, i) * TopQuad(b, num_bits, i))
                                       % Modulus
            /\ q # 0
            /\ \A i \in 0 .. (n - 1) :
                  /\ Sub(val(row(i + 1).w_a), Mul(4, val(row(i).w_a))) \in 0 .. 3
                  /\ Sub(val(row(i + 1).w_b), Mul(4, val(row(i).w_b))) \in 0 .. 3
                  /\ Sub(val(row(i + 1).w_d), Mul(4, val(row(i).w_d))) \in 0 .. 3
            /\ call'.ret[1] = row(n).w_d
    ]_vars

\* C28 witness: the gadget has run over the whole width on two operands
\* whose lowest quads are 3 and 2
C28_Witness ==
    /\ call.op = "append_logic_xor"
    /\ call.args[3] = FieldBits
    /\ witness[call.args[1] + 1] = 3
    /\ witness[call.args[2] + 1] = 6
    /\ witness[Len(witness) - 1] = 6
    /\ witness[call.ret[1] + 1] = 5
    /\ constraints[Len(constraints)].w_o = ZERO


\* C29: every composer operation only appends: the witness vector and the
\* constraint list before it are prefixes of those after it and the entries
\* of the public-input register keep their values; append_witness adds
\* exactly one witness, returns its index, the length of the vector before,
\* and emits no gate.
C29_AppendOnly ==
    [][/\ Len(witness') >= Len(witness)
       /\ SubSeq(witness', 1, Len(witness)) = witness
       /\ Len(constraints') >= Len(constraints)
       /\ SubSeq(constraints', 1, Len(constraints)) = constraints
       /\ \A g \in DOMAIN instance :
              g \in DOMAIN instance' /\ instance'[g] = instance[g]
       /\ (call'.op = "append_witness") =>
              /\ witness' = Append(witness, call'.args[1])
              /\ call'.ret = Some(Len(witness))
              /\ constraints' = constraints
              /\ instance' = instance
    ]_vars

\* C29 witness: after a gate carrying a public input, append_witness has
\* added a witness that differs from the one before it
C29_Witness ==
    /\ call.op = "append_witness"
    /\ DOMAIN instance # {}
    /\ Len(witness) > 6
    /\ witness[Len(witness)] # witness[Len(witness) - 1]
    /\ call.ret = Some(Len(witness) - 1)

\* the arithmetic identity q_m a b + q_l a + q_r b + q_o o + q_d d + q_c + PI = 0
\* of gate g (0-based) under the witness values
GateSatisfied(cons, wit, inst, g) ==
    LET c == cons[g + 1]
        pi == IF g \in DOMAIN inst THEN inst[g] ELSE 0
    IN  ((c.q_m * wit[c.w_a + 1] * wit[c.w_b + 1]) + (c.q_l * wit[c.w_a + 1])
         + (c.q_r * wit[c.w_b + 1]) + (c.q_o * wit[c.w_o + 1])
         + (c.q_d * wit[c.w_d + 1]) + c.q_c + pi) % Modulus = 0

\* the gate is one assert_equal, assert_equal_constant or component_boolean
\* emits
IsAssertionGate(c) ==
    \/ c = ConstraintArithmetic(AssertEqualGate(c.w_a, c.w_b))
    \/ \E k \in F :
           c = ConstraintArithmetic(AssertEqualConstantGate(c.w_a, k, c.public_input))
    \/ c = ConstraintArithmetic(ComponentBooleanGate(c.w_a))

\* the operations whose gates are computed together with their witnesses
ComputedGateOps ==
    {"append_dummy_gates", "append_constant", "append_public", "gate_add",
     "gate_mul", "component_select", "component_select_identity",
     "component_decomposition"}

\* the gates of initialize and the gates the operation of this step appends
\* from values it computes hold under the stored witnesses
ComputedGatesHold ==
    /\ \A g \in 0 .. 5 : GateSatisfied(constraints, witness, instance, g)
    /\ \A g \in Len(constraints) .. (Len(constraints') - 1) :
           (/\ call'.op \in ComputedGateOps
            /\ constraints'[g + 1].q_arith # 0
            /\ ~ IsAssertionGate(constraints'[g + 1]))
               => GateSatisfied(constraints', witness', instance', g)

C30_WitnessUnsatisfied ==
    /\ call.op = "component_decomposition"
    /\ call.args[2] = 2
    /\ witness[call.args[1] + 1] = 5
    /\ ~ GateSatisfied(constraints, witness, instance, Len(constraints) - 1)
    /\ IsAssertionGate(constraints[Len(constraints)])

====
